---- MODULE Spec2Model ----
(***************************************************************************)
(* Gemini Vox: the audio codec (PCM decoder, WAV encoder, MP3 block        *)
(* encoder) and the single-source playback engine of the React client.     *)
(*                                                                         *)
(* The specifications of this module:                                      *)
(*   CodecSpec       the pure codec functions of utils/audioUtils and of   *)
(*                   the server's audio helpers, on bounded inputs;        *)
(*   EncodeSpec      the encoders called with null and empty buffers;      *)
(*   Spec            the playback engine and history handlers of App;      *)
(*   GenerateSpec    handleGenerate, await by await;                       *)
(*   StoreSpec       the IndexedDB store of utils/db;                      *)
(*   SessionSpec     session export, import and favourites;                *)
(*   VisualizerSpec  the Visualizer's drawing loop;                        *)
(*   ToastSpec       the timers of the toasts;                             *)
(*   PlayoutSpec     playback to the end, under weak fairness;             *)
(*   SyncSpec        the store and the list under interleaved handlers.    *)
(*                                                                         *)
(* Floating point samples are modelled exactly as integers in units of     *)
(* 1/32768 (every value the decoder produces is k/32768 with k an int16,   *)
(* and every product the encoders form is exact in a double).              *)
(***************************************************************************)
EXTENDS Integers, Sequences, FiniteSets, TLC

\* ------------------------------------------------------------------------
\* Bounds of the model
\* ------------------------------------------------------------------------

\* longest exhaustively enumerated PCM byte string
MaxShortLen == 3

\* largest number of whole MP3 blocks in a generated long input
MaxBlocks == 2

\* ------------------------------------------------------------------------
\* Program constants
\* ------------------------------------------------------------------------

SAMPLE_RATE == 24000

sampleBlockSize == 1152

WavHeaderLen == 44

\* ------------------------------------------------------------------------
\* Arithmetic helpers: JavaScript number conversions
\* ------------------------------------------------------------------------

\* ToInt32-style truncation toward zero of the rational n/d (d > 0)
TruncDiv(n, d) == IF n >= 0 THEN n \div d ELSE -((-n) \div d)

Min(a, b) == IF a < b THEN a ELSE b

Max(a, b) == IF a > b THEN a ELSE b

\* two little-endian bytes of a 16 bit store (DataView.setUint16 / setInt16,
\* Buffer.writeUInt16LE): the value modulo 2^16
LE16(v) == << (v % 65536) % 256, (v % 65536) \div 256 >>

\* four little-endian bytes of a 32 bit store (DataView.setUint32,
\* Buffer.writeUInt32LE) of an int32-range value v, i.e. of v modulo 2^32;
\* a negative v has the top bit set
LE32(v) ==
    LET low31 == IF v >= 0 THEN v ELSE (v + 2147483647) + 1
    IN  << low31 % 256,
           (low31 \div 256) % 256,
           (low31 \div 65536) % 256,
           (low31 \div 16777216) + (IF v < 0 THEN 128 ELSE 0) >>

\* variant of Int16LE: the two bytes read in big-endian order
Int16BE(lo, hi) == IF hi + 256 * lo >= 32768 THEN hi + 256 * lo - 65536
                   ELSE hi + 256 * lo

\* the signed 16 bit integer read little-endian from two bytes (Int16Array)
Int16LE(lo, hi) == IF lo + 256 * hi >= 32768 THEN lo + 256 * hi - 65536
                   ELSE lo + 256 * hi

\* ASCII codes written by Buffer.write('....')
AsciiRIFF == <<82, 73, 70, 70>>

AsciiWAVE == <<87, 65, 86, 69>>

AsciiFmt == <<102, 109, 116, 32>>

AsciiData == <<100, 97, 116, 97>>

\* ------------------------------------------------------------------------
\* Base64 text.  A character is its 6 bit value 0..63, PadChar for '=',
\* BadChar for a character outside the alphabet, WsChar for ASCII whitespace.
\* ------------------------------------------------------------------------

PadChar == 64

BadChar == 65

WsChar == 66

\* window.atob: the forgiving-base64 decode.  Whitespace is stripped, up to
\* two trailing '=' are removed when the length is a multiple of 4, a length
\* of 1 modulo 4 or a character outside the alphabet is an
\* InvalidCharacterError; leftover bits of the last group are discarded.
atobBinary(base64) ==
    LET s == SelectSeq(base64, LAMBDA c : c # WsChar)
        n == Len(s)
        d == IF n > 0 /\ n % 4 = 0 /\ s[n] = PadChar
             THEN IF s[n - 1] = PadChar THEN SubSeq(s, 1, n - 2)
                  ELSE SubSeq(s, 1, n - 1)
             ELSE s
        m == Len(d)
        r == m % 4
        nbytes == 3 * (m \div 4) + (IF r = 0 THEN 0 ELSE r - 1)
        ch(i) == IF i <= m THEN d[i] ELSE 0
        grp(q) == ch(4 * q + 1) * 262144 + ch(4 * q + 2) * 4096
                  + ch(4 * q + 3) * 64 + ch(4 * q + 4)
        byte(k) == LET q == k \div 3
                       j == k % 3
                   IN  IF j = 0 THEN grp(q) \div 65536
                       ELSE IF j = 1 THEN (grp(q) \div 256) % 256
                       ELSE grp(q) % 256
    IN  IF r = 1 \/ \E i \in 1..m : d[i] > 63
        THEN [ok |-> FALSE, binary |-> << >>]
        ELSE [ok |-> TRUE, binary |-> [k \in 1..nbytes |-> byte(k - 1)]]

\* binaryToBytes: one byte per character code of the binary string
binaryToBytes(binary) == [i \in 1..Len(binary) |-> binary[i] % 256]

\* ------------------------------------------------------------------------
\* AudioBuffer values.  channelData[c][i] is the sample in units of 1/32768.
\* ------------------------------------------------------------------------

NoBuffer == [status |-> "none"]

\* BaseAudioContext.createBuffer followed by the fill of its channels; the
\* frame count is converted to an unsigned long (truncated) by the caller
AudioBufferOf(numberOfChannels, length, rate, data) ==
    [status |-> "ok", numberOfChannels |-> numberOfChannels,
     length |-> length, sampleRate |-> rate, channelData |-> data]

\* AudioBuffer.duration = length / sampleRate, kept as an exact fraction
BufferDuration(buffer) == [num |-> buffer.length, den |-> buffer.sampleRate]

\* decodeAudioData: atob, Int16Array view, createBuffer, normalise by 32768.
\* - atob throws on malformed base64;
\* - new Int16Array(bytes.buffer) throws a RangeError when the byte length
\*   is odd;
\* - createBuffer throws NotSupportedError for a length of 0 frames;
\* - a fractional frameCount (length not a multiple of numChannels) is
\*   truncated by createBuffer, and the loop's writes past the end of the
\*   channel are ignored by the typed array.
decodeAudioData(base64Data, rate, numChannels) ==
    LET bin == atobBinary(base64Data)
        bytes == binaryToBytes(bin.binary)
        n16 == Len(bytes) \div 2
        dataInt16 == [i \in 1..n16 |-> Int16LE(bytes[2 * i - 1], bytes[2 * i])]
        frames == n16 \div numChannels
    IN  IF ~bin.ok THEN [status |-> "error", error |-> "InvalidCharacterError"]
        ELSE IF Len(bytes) % 2 # 0
             THEN [status |-> "error", error |-> "RangeError"]
        ELSE IF frames = 0
             THEN [status |-> "error", error |-> "NotSupportedError"]
        ELSE AudioBufferOf(numChannels, frames, rate,
               [channel \in 1..numChannels |->
                  [i \in 1..frames |->
                     dataInt16[(i - 1) * numChannels + channel]]])

\* ------------------------------------------------------------------------
\* WAV encoder (client) and WAV header (server)
\* ------------------------------------------------------------------------

\* variant of WavHeaderBytes: the RIFF chunk size written as length - 4
WavHeaderBytesOffBy4(numOfChan, rate, length) ==
    LE32(1179011410) \o LE32(length - 4) \o LE32(1163280727)
    \o LE32(544501094) \o LE32(16) \o LE16(1) \o LE16(numOfChan)
    \o LE32(rate) \o LE32(rate * 2 * numOfChan) \o LE16(numOfChan * 2)
    \o LE16(16)
    \o LE32(1635017060) \o LE32(length - 40 - 4)

\* the header writes of audioBufferToWav, in program order; every setUint32 /
\* setUint16 appends its little-endian bytes at pos and advances pos, so the
\* header is the concatenation of the fields.  The data chunk length is
\* written as length - pos - 4 with pos = 40 at that point.
WavHeaderBytes(numOfChan, rate, length) ==
    LE32(1179011410) \o LE32(length - 8) \o LE32(1163280727)
    \o LE32(544501094) \o LE32(16) \o LE16(1) \o LE16(numOfChan)
    \o LE32(rate) \o LE32(rate * 2 * numOfChan) \o LE16(numOfChan * 2)
    \o LE16(16)
    \o LE32(1635017060) \o LE32(length - 40 - 4)

\* clamp of one sample to [-1, 1]: Math.max(-1, Math.min(1, x))
ClampSample(x) == Max(-32768, Min(32768, x))

\* float -> int16 of the WAV encoder,
\*   (0.5 + sample < 0 ? sample * 32768 : sample * 32767) | 0
\* `+` binds tighter than `<`: the 32768 factor is chosen when
\* sample < -0.5, everything else is scaled by 32767; | 0 truncates.
WavQuantize(x) ==
    LET sample == ClampSample(x)
    IN  IF 16384 + sample < 0 THEN sample
        ELSE TruncDiv(sample * 32767, 32768)

\* audioBufferToWav.  The ArrayBuffer of `length` bytes starts zeroed.  The
\* counter pos is shared by the header writers and the sample loop: it is
\* Len(header) when `while (pos < buffer.length)` starts, so the loop reads
\* frames pos = Len(header), Len(header)+1, ... and stores them from byte
\* 44 + offset with offset = 0, 2, 4, ...
audioBufferToWav(buffer) ==
    LET numOfChan == buffer.numberOfChannels
        length == buffer.length * numOfChan * 2 + 44
        header == WavHeaderBytes(numOfChan, buffer.sampleRate, length)
        pos0 == Len(header)
        nwrites == IF buffer.length > pos0
                   THEN (buffer.length - pos0) * numOfChan ELSE 0
        written(k) == \* the k-th setInt16 of the loop, k = 0, 1, ...
            LE16(WavQuantize(
                   buffer.channelData[(k % numOfChan) + 1]
                                     [pos0 + (k \div numOfChan) + 1]))
        byte(b) == \* byte at 0-based index b
            IF b < pos0 THEN header[b + 1]
            ELSE IF (b - 44) \div 2 < nwrites
                 THEN written((b - 44) \div 2)[((b - 44) % 2) + 1]
                 ELSE 0
    IN  [i \in 1..length |-> byte(i - 1)]

\* createWavHeader (server): 44 bytes, fields written at fixed offsets
createWavHeader(pcmLength, rate, numChannels) ==
    LET byteRate == rate * numChannels * 2
        blockAlign == numChannels * 2
        dataSize == pcmLength
        fileSize == 36 + dataSize
    IN  AsciiRIFF \o LE32(fileSize) \o AsciiWAVE
        \o AsciiFmt \o LE32(16) \o LE16(1) \o LE16(numChannels)
        \o LE32(rate) \o LE32(byteRate) \o LE16(blockAlign) \o LE16(16)
        \o AsciiData \o LE32(dataSize)

\* ------------------------------------------------------------------------
\* MP3 block encoding (client export and server conversion).  The lamejs
\* Mp3Encoder is an external collaborator: a call is recorded with the
\* samples it is given, and its output is a token naming the call, empty
\* for the first `latency` encodeBuffer calls (the encoder buffers input).
\* ------------------------------------------------------------------------

\* float -> int16 of the MP3 encoder: s < 0 ? s * 0x8000 : s * 0x7FFF, stored
\* into an Int16Array (truncation)
Mp3Quantize(x) ==
    LET s == ClampSample(x)
    IN  IF s < 0 THEN s ELSE TruncDiv(s * 32767, 32768)

EncodeCall(chunk) == [op |-> "encodeBuffer", samples |-> chunk]

FlushCall == [op |-> "flush", samples |-> << >>]

\* output of the k-th encoder call
EncoderOutput(k, call, latency, flushEmpty) ==
    IF call.op = "flush"
    THEN IF flushEmpty THEN << >> ELSE << [frame |-> k, op |-> "flush"] >>
    ELSE IF k <= latency THEN << >>
         ELSE << [frame |-> k, op |-> "encodeBuffer"] >>

RECURSIVE ConcatAll(_)
ConcatAll(seqs) ==
    IF seqs = << >> THEN << >> ELSE Head(seqs) \o ConcatAll(Tail(seqs))

\* variant of ClientBlockCalls: a loop `for (i = 0; i < length; i += 1152)`
\* that also hands the last, shorter block to the encoder
ClientBlockCallsWithTail(samplesInt16) ==
    LET blocks == (Len(samplesInt16) + sampleBlockSize - 1) \div sampleBlockSize
    IN  [k \in 1..blocks |->
           EncodeCall(SubSeq(samplesInt16, (k - 1) * sampleBlockSize + 1,
                             Min(k * sampleBlockSize, Len(samplesInt16))))]
        \o << FlushCall >>

\* the block loop of audioBufferToMp3:
\*   while (remaining >= sampleBlockSize) { encodeBuffer(subarray(i, i+1152));
\*     remaining -= 1152; i += 1152 }   then flush()
ClientBlockCalls(samplesInt16) ==
    LET blocks == Len(samplesInt16) \div sampleBlockSize
    IN  [k \in 1..blocks |->
           EncodeCall(SubSeq(samplesInt16, (k - 1) * sampleBlockSize + 1,
                             k * sampleBlockSize))]
        \o << FlushCall >>

\* mp3Data: the non-empty outputs, pushed in call order; the Blob is their
\* concatenation
Mp3Outputs(calls, latency, flushEmpty) ==
    ConcatAll([k \in 1..Len(calls) |->
                 EncoderOutput(k, calls[k], latency, flushEmpty)])

audioBufferToMp3(buffer, latency, flushEmpty) ==
    LET samples == buffer.channelData[1]
        samplesInt16 == [i \in 1..Len(samples) |-> Mp3Quantize(samples[i])]
        calls == ClientBlockCalls(samplesInt16)
    IN  [status |-> "ok", samplesInt16 |-> samplesInt16, calls |-> calls,
         encoder |-> [latency |-> latency, flushEmpty |-> flushEmpty],
         blob |-> Mp3Outputs(calls, latency, flushEmpty)]

\* the block loop of pcmToMp3 (server)
ServerBlockCalls(samples) ==
    LET blocks == Len(samples) \div sampleBlockSize
    IN  [k \in 1..blocks |->
           EncodeCall(SubSeq(samples, (k - 1) * sampleBlockSize + 1,
                             k * sampleBlockSize))]
        \o << FlushCall >>

\* pcmToMp3: Int16Array view of pcmBuffer.length / 2 elements (the length is
\* truncated to an integer), block loop, flush, concatenation into a Buffer
pcmToMp3(pcmBuffer, latency, flushEmpty) ==
    LET n == Len(pcmBuffer) \div 2
        samples == [i \in 1..n |->
                      Int16LE(pcmBuffer[2 * i - 1], pcmBuffer[2 * i])]
        calls == ServerBlockCalls(samples)
    IN  [status |-> "ok", samples |-> samples, calls |-> calls,
         result |-> Mp3Outputs(calls, latency, flushEmpty)]

\* base64ToBuffer (server): Buffer.from(base64, 'base64').  Node's decoder is
\* lenient: it skips characters outside the alphabet, stops at the first
\* '=', and decodes what is left, discarding leftover bits.
base64ToBuffer(base64) ==
    LET upto == IF \E i \in 1..Len(base64) : base64[i] = PadChar
                THEN (CHOOSE i \in 1..Len(base64) :
                        /\ base64[i] = PadChar
                        /\ \A j \in 1..(i - 1) : base64[j] # PadChar) - 1
                ELSE Len(base64)
        d == SelectSeq(SubSeq(base64, 1, upto), LAMBDA c : c <= 63)
        m == Len(d)
        r == m % 4
        nbytes == 3 * (m \div 4) + (IF r <= 1 THEN 0 ELSE r - 1)
        ch(i) == IF i <= m THEN d[i] ELSE 0
        grp(q) == ch(4 * q + 1) * 262144 + ch(4 * q + 2) * 4096
                  + ch(4 * q + 3) * 64 + ch(4 * q + 4)
        byte(k) == LET q == k \div 3
                       j == k % 3
                   IN  IF j = 0 THEN grp(q) \div 65536
                       ELSE IF j = 1 THEN (grp(q) \div 256) % 256
                       ELSE grp(q) % 256
    IN  [k \in 1..nbytes |-> byte(k - 1)]

\* ------------------------------------------------------------------------
\* Inputs of the codec specification
\* ------------------------------------------------------------------------

\* standard base64 text of a byte string, as the generation service and
\* Buffer.toString('base64') produce it (with '=' padding)
B64Encode(bytes) ==
    LET n == Len(bytes)
        nchars == 4 * ((n + 2) \div 3)
        bt(i) == IF i <= n THEN bytes[i] ELSE 0
        grp(q) == bt(3 * q + 1) * 65536 + bt(3 * q + 2) * 256 + bt(3 * q + 3)
        char(k) == LET q == k \div 4
                       j == k % 4
                       have == n - 3 * q  \* bytes in this group
                   IN  IF j = 0 THEN grp(q) \div 262144
                       ELSE IF j = 1 THEN (grp(q) \div 4096) % 64
                       ELSE IF j = 2
                            THEN IF have >= 2 THEN (grp(q) \div 64) % 64
                                 ELSE PadChar
                       ELSE IF have >= 3 THEN grp(q) % 64 ELSE PadChar
    IN  [k \in 1..nchars |-> char(k - 1)]

ByteVals == {0, 1, 128, 255}

ShortPcm == UNION { [1..n -> ByteVals] : n \in 0..MaxShortLen }

\* byte i of a generated long PCM string: all samples -1, or a ramp
PatternByte(kind, i) ==
    IF kind = 1 THEN 255 ELSE (37 * i) % 256

PatternKinds == {1, 2}

\* byte lengths around the 44-frame mark of the WAV encoder and around
\* whole MP3 blocks
LongLens ==
    {90, 92, 93, 180}
    \cup { 2 * sampleBlockSize * b + r : b \in 1..MaxBlocks, r \in {0, 2} }

LongPcm == { [i \in 1..len |-> PatternByte(kind, i)] :
               len \in LongLens, kind \in PatternKinds }

\* one second of silence at 24000 Hz
OneSecondPcm == [i \in 1..(2 * SAMPLE_RATE) |-> 0]

\* texts the decoder can be handed for a PCM string: its base64 text, the
\* text with a stray character, with leading whitespace, or cut by one
\* character
RawVariants(bytes) ==
    LET enc == B64Encode(bytes)
    IN  {enc, enc \o <<BadChar>>, <<WsChar>> \o enc}
        \cup (IF Len(enc) > 0 THEN {SubSeq(enc, 1, Len(enc) - 1)} ELSE {})

RawInputs ==
    UNION { RawVariants(b) : b \in ShortPcm }
    \cup { B64Encode(b) : b \in LongPcm }

SampleRates == {8000, SAMPLE_RATE}

ChannelCounts == {1, 2}

\* float samples (units of 1/32768) of synthesized buffers, inside and
\* outside [-1, 1]
FloatVals ==
    <<-40000, -32768, -16385, -16384, -8192, -1, 0, 1, 16384, 32767, 32768,
      40000>>

SynthLens == {1, 2, 45, 46, sampleBlockSize + 1}

\* a mono buffer filled by its creator (voice preview tone, stitchBuffers)
SynthBuffers ==
    { AudioBufferOf(1, len, SAMPLE_RATE,
        << [i \in 1..len |-> FloatVals[((seed + i) % Len(FloatVals)) + 1]] >>) :
        len \in SynthLens, seed \in 0..(Len(FloatVals) - 1) }

\* ------------------------------------------------------------------------
\* State
\* ------------------------------------------------------------------------

VARIABLES
    \* codec: inputs and results of the codec functions
    cpc,          \* which codec function is applied next
    base64Data,   \* RawAudioSample handed to the decoder / the server
    sampleRate,   \* sampleRate argument
    numChannels,  \* numChannels argument
    buffer,       \* AudioBuffer (decoded or synthesized), or the error
    wavBlob,      \* bytes of audioBufferToWav(buffer)
    reDecoded,    \* decodeAudioData of the payload of wavBlob
    mp3Client,    \* audioBufferToMp3(buffer)
    pcmBuffer,    \* server: base64ToBuffer(base64Data)
    wavHeader,    \* server: createWavHeader(pcmBuffer.length, ...)
    mp3Server,    \* server: pcmToMp3(pcmBuffer)
    \* App: React state
    history,          \* in-memory list of GeneratedAudio items
    activeId,         \* id of the active item, NullId for null
    isPlaying,
    currentTime,      \* displayed position
    duration,         \* duration of the active item as displayed
    playbackRate,
    volume,
    previewVoice,     \* voice whose preview indicator is lit, or NoVoice
    isGenerating,
    generateClosure,  \* state captured by the handleGenerate in flight
    \* App: refs and the Web Audio objects they point to
    audioContextRef,  \* NoCtx, or which AudioContext is cached
    gainNodeRef,      \* NoCtx, or the context that made the gain/analyser
    gainValue,        \* gainNodeRef.current.gain.value
    sourceNodeRef,    \* the history source, or NullSource
    previewSourceRef, \* the preview source, or NullPreview
    leaked,           \* started sources no ref points to any more
    startTimeRef,     \* clock reference, in half units of time
    rafFrames,        \* pending requestAnimationFrame(tick) callbacks
    endedEvents,      \* preview 'ended' events not yet dispatched
    \* environment
    now,              \* ctx.currentTime, the device clock
    store,            \* IndexedDB object store 'history'
    loadPending,      \* loadHistory of the mount effect has not returned
    pendingDeletes,   \* ids whose db.deleteItem has not returned
    pendingClear,     \* db.clearDB has not returned
    nextId,           \* the next Date.now() id
    \* handleGenerate followed await by await
    generation,       \* the await handleGenerate is suspended at
    toasts,           \* the toasts state: what addToast appended
    \* the object store followed request by request
    storeLog,         \* the store requests that were carried out
    \* session export and import, favourites
    sessionFile,      \* text of the last session document exported
    importing,        \* the FileReader result and the import in flight
    pendingToggles,   \* newItem of every handleToggleFavorite awaiting
                      \* db.saveItem, oldest first
    \* the Visualizer component
    vizMode,          \* App state: 'spectrum' | 'waveform'
    visualizer,       \* props of the last effect run, the frame
                      \* animationRef names, the canvas, the queries
    \* the ToastItem components
    toastTimers       \* the App state of the last render, and for
                      \* every toast shown when it appeared and when
                      \* its timer is due

codecVars == << cpc, base64Data, sampleRate, numChannels, buffer, wavBlob,
                reDecoded, mp3Client, pcmBuffer, wavHeader, mp3Server >>

engineVars == << activeId, isPlaying, currentTime, duration, playbackRate,
                 volume, previewVoice, audioContextRef, gainNodeRef,
                 gainValue, sourceNodeRef, previewSourceRef, leaked,
                 startTimeRef, rafFrames, endedEvents >>

appVars == << history, isGenerating, generateClosure, now, store,
              loadPending, pendingDeletes, pendingClear, nextId >>

generateVars == << generation, toasts >>

sideVars ==
    << storeLog, sessionFile, importing, pendingToggles, vizMode, visualizer,
       toastTimers >>

vars == << codecVars, engineVars, appVars, generateVars, sideVars >>

None == [status |-> "none"]

\* ------------------------------------------------------------------------
\* App state after mount (part of every initial state)
\* ------------------------------------------------------------------------

NullId == 0

NoVoice == "none"

NoCtx == 0

\* the AudioContext made by initAudioContext on a user action
UserCtx == 1

\* the AudioContext made by loadHistory
LoadCtx == 2

NullSource == [item |-> NullId, emitting |-> FALSE]

NullPreview == [voice |-> NoVoice, emitting |-> FALSE]

\* the Visualizer before App renders it: no props, no frame requested, a
\* blank canvas, no query of the analyser made
NoVisualizer ==
    [props |-> [mounted |-> FALSE], frame |-> FALSE, canvas |-> "blank",
     snapshots |-> 0]

\* no file was read and no import is in flight
NoImport ==
    [at |-> "none", result |-> None, hydrated |-> << >>, pending |-> {},
     rejected |-> FALSE]

\* useState / useRef initial values; the store holds what earlier sessions
\* left in it, and the mount effect has started loadHistory
\* no handleGenerate is suspended
NoClosure == [activeId |-> NullId, isPlaying |-> FALSE, playbackRate |-> 1]

\* handleGenerate is not running
NoGeneration == [at |-> "none", base64Data |-> << >>, buffer |-> NoBuffer]

AppMounted(savedItems) ==
    /\ history = << >>
    /\ activeId = NullId
    /\ isPlaying = FALSE
    /\ currentTime = 0
    /\ duration = 0
    /\ playbackRate = 1
    /\ volume = 100
    /\ previewVoice = NoVoice
    /\ isGenerating = FALSE
    /\ generateClosure = NoClosure
    /\ audioContextRef = NoCtx
    /\ gainNodeRef = NoCtx
    /\ gainValue = 100
    /\ sourceNodeRef = NullSource
    /\ previewSourceRef = NullPreview
    /\ leaked = {}
    /\ startTimeRef = 0
    /\ rafFrames = {}
    /\ endedEvents = 0
    /\ now = 0
    /\ store = savedItems
    /\ loadPending = TRUE
    /\ pendingDeletes = {}
    /\ pendingClear = FALSE
    /\ nextId = Cardinality(savedItems) + 1
    /\ generation = NoGeneration
    /\ toasts = << >>
    /\ storeLog = << >>
    /\ sessionFile = None
    /\ importing = NoImport
    /\ pendingToggles = << >>
    /\ vizMode = "spectrum"
    /\ visualizer = NoVisualizer
    /\ toastTimers =
           [rendered |-> << NullId, FALSE, 0, 0, 1, 100, NoVoice, << >>,
                            FALSE, << >> >>,
            timers |-> << >>]

\* ------------------------------------------------------------------------
\* Codec specification: the functions applied in pipeline order
\* ------------------------------------------------------------------------

\* The decoder is handed either any of the raw inputs with any parameters,
\* or one second of audio with the parameters the client always passes
\* (SAMPLE_RATE, mono); or the encoders are handed a synthesized buffer.
CodecInit ==
    /\ \/ /\ base64Data \in RawInputs
          /\ buffer = NoBuffer
          /\ cpc = "decode"
          /\ sampleRate \in SampleRates
          /\ numChannels \in ChannelCounts
       \/ /\ base64Data = B64Encode(OneSecondPcm)
          /\ buffer = NoBuffer
          /\ cpc = "decode"
          /\ sampleRate = SAMPLE_RATE
          /\ numChannels = 1
       \/ /\ base64Data = << >>
          /\ buffer \in SynthBuffers
          /\ cpc = "wav"
          /\ sampleRate \in SampleRates
          /\ numChannels \in ChannelCounts
    /\ wavBlob = None
    /\ reDecoded = None
    /\ mp3Client = None
    /\ pcmBuffer = None
    /\ wavHeader = None
    /\ mp3Server = None
    /\ AppMounted({})

\* the codec functions touch nothing of the App
AppIdle == UNCHANGED << engineVars, appVars, generateVars, sideVars >>

\* client: buffer = await decodeAudioData(base64Data, ctx, sampleRate, n)
DecodeAudioData ==
    /\ cpc = "decode"
    /\ buffer' = decodeAudioData(base64Data, sampleRate, numChannels)
    /\ cpc' = IF buffer'.status = "ok" THEN "wav" ELSE "server"
    /\ UNCHANGED << base64Data, sampleRate, numChannels, wavBlob, reDecoded,
                    mp3Client, pcmBuffer, wavHeader, mp3Server >>
    /\ AppIdle

\* client: handleDownload(item, 'wav')
AudioBufferToWav ==
    /\ cpc = "wav"
    /\ wavBlob' = [status |-> "ok", bytes |-> audioBufferToWav(buffer)]
    /\ cpc' = "redecode"
    /\ UNCHANGED << base64Data, sampleRate, numChannels, buffer, reDecoded,
                    mp3Client, pcmBuffer, wavHeader, mp3Server >>
    /\ AppIdle

\* the PCM payload of the WAV file, decoded again with the buffer's own
\* parameters
RedecodeWav ==
    /\ cpc = "redecode"
    /\ reDecoded' =
         decodeAudioData(
           B64Encode(SubSeq(wavBlob.bytes, WavHeaderLen + 1, Len(wavBlob.bytes))),
           buffer.sampleRate, buffer.numberOfChannels)
    /\ cpc' = "mp3"
    /\ UNCHANGED << base64Data, sampleRate, numChannels, buffer, wavBlob,
                    mp3Client, pcmBuffer, wavHeader, mp3Server >>
    /\ AppIdle

\* client: handleDownload(item, 'mp3'); the encoder's buffering behaviour is
\* the library's
AudioBufferToMp3 ==
    /\ cpc = "mp3"
    /\ \E latency \in 0..1, flushEmpty \in BOOLEAN :
         mp3Client' = audioBufferToMp3(buffer, latency, flushEmpty)
    /\ cpc' = "server"
    /\ UNCHANGED << base64Data, sampleRate, numChannels, buffer, wavBlob,
                    reDecoded, pcmBuffer, wavHeader, mp3Server >>
    /\ AppIdle

\* server: pcmBuffer = base64ToBuffer(pcmBase64)
Base64ToBuffer ==
    /\ cpc = "server"
    /\ pcmBuffer' = [status |-> "ok", bytes |-> base64ToBuffer(base64Data)]
    /\ cpc' = "header"
    /\ UNCHANGED << base64Data, sampleRate, numChannels, buffer, wavBlob,
                    reDecoded, mp3Client, wavHeader, mp3Server >>
    /\ AppIdle

\* server: header = createWavHeader(pcmBuffer.length, sampleRate, numChannels)
CreateWavHeader ==
    /\ cpc = "header"
    /\ wavHeader' = [status |-> "ok", pcmLength |-> Len(pcmBuffer.bytes),
                     sampleRate |-> sampleRate, numChannels |-> numChannels,
                     bytes |-> createWavHeader(Len(pcmBuffer.bytes),
                                               sampleRate, numChannels)]
    /\ cpc' = "pcmToMp3"
    /\ UNCHANGED << base64Data, sampleRate, numChannels, buffer, wavBlob,
                    reDecoded, mp3Client, pcmBuffer, mp3Server >>
    /\ AppIdle

\* server: mp3Buffer = pcmToMp3(pcmBuffer); the encoder library behaves as it
\* did for the client export when that one ran
PcmToMp3 ==
    /\ cpc = "pcmToMp3"
    /\ \E latency \in 0..1, flushEmpty \in BOOLEAN :
         /\ mp3Client.status = "ok" =>
              mp3Client.encoder = [latency |-> latency, flushEmpty |-> flushEmpty]
         /\ mp3Server' = pcmToMp3(pcmBuffer.bytes, latency, flushEmpty)
    /\ cpc' = "done"
    /\ UNCHANGED << base64Data, sampleRate, numChannels, buffer, wavBlob,
                    reDecoded, mp3Client, pcmBuffer, wavHeader >>
    /\ AppIdle

CodecNext ==
    \/ DecodeAudioData
    \/ AudioBufferToWav
    \/ RedecodeWav
    \/ AudioBufferToMp3
    \/ Base64ToBuffer
    \/ CreateWavHeader
    \/ PcmToMp3

CodecSpec == CodecInit /\ [][CodecNext]_vars

\* ------------------------------------------------------------------------
\* Encoder specification: the two client encoders called with any argument
\* a caller can hand them
\* ------------------------------------------------------------------------

\* a value with the AudioBuffer interface and no frames
EmptyBuffers ==
    { AudioBufferOf(n, 0, SAMPLE_RATE, [c \in 1..n |-> << >>]) :
        n \in ChannelCounts }

\* arguments of the encoders: a filled buffer, one without frames, or
\* null / undefined (NoBuffer)
EncoderArgs == SynthBuffers \cup EmptyBuffers \cup {NoBuffer}

\* the call audioBufferToWav(arg): reading numberOfChannels of null throws
\* a TypeError before anything is allocated
callAudioBufferToWav(arg) ==
    IF arg = NoBuffer
    THEN [status |-> "error", error |-> "TypeError", bytes |-> << >>]
    ELSE [status |-> "ok", bytes |-> audioBufferToWav(arg)]

\* the call audioBufferToMp3(arg)
callAudioBufferToMp3(arg, latency, flushEmpty) ==
    IF arg = NoBuffer
    THEN [status |-> "error", error |-> "TypeError", blob |-> << >>]
    ELSE audioBufferToMp3(arg, latency, flushEmpty)

EncodeInit ==
    /\ cpc = "encodeWav"
    /\ buffer \in EncoderArgs
    /\ base64Data = << >>
    /\ sampleRate = SAMPLE_RATE
    /\ numChannels = 1
    /\ wavBlob = None
    /\ reDecoded = None
    /\ mp3Client = None
    /\ pcmBuffer = None
    /\ wavHeader = None
    /\ mp3Server = None
    /\ AppMounted({})

\* blob = audioBufferToWav(buffer)
EncodeWav ==
    /\ cpc = "encodeWav"
    /\ wavBlob' = callAudioBufferToWav(buffer)
    /\ cpc' = "encodeMp3"
    /\ UNCHANGED << base64Data, sampleRate, numChannels, buffer, reDecoded,
                    mp3Client, pcmBuffer, wavHeader, mp3Server >>
    /\ AppIdle

\* blob = audioBufferToMp3(buffer)
EncodeMp3 ==
    /\ cpc = "encodeMp3"
    /\ \E latency \in 0..1, flushEmpty \in BOOLEAN :
         mp3Client' = callAudioBufferToMp3(buffer, latency, flushEmpty)
    /\ cpc' = "encoded"
    /\ UNCHANGED << base64Data, sampleRate, numChannels, buffer, wavBlob,
                    reDecoded, pcmBuffer, wavHeader, mp3Server >>
    /\ AppIdle

EncodeNext ==
    \/ EncodeWav
    \/ EncodeMp3

EncodeSpec == EncodeInit /\ [][EncodeNext]_vars

\* ------------------------------------------------------------------------
\* Playback engine (App).  Handlers run to completion on the committed
\* React state; a handler's effect is computed on a record of the engine
\* state, one operator per function of the component, applied in program
\* order (later setState calls of a handler override earlier ones).
\* ------------------------------------------------------------------------

\* bounds of the playback model
\* the device clock runs from 0 to MaxClock
MaxClock == 1

\* ids handed out over a session, saved items included
MaxItems == 2

\* preview 'ended' events waiting to be dispatched
MaxEnded == 1

\* delete and clear requests the store has not answered
MaxPending == 1

Rates == {1, 2}

Volumes == {50, 100}

Voices == {"Puck", "Kore"}

\* durations (in units of time) of decoded buffers
Durations == {2}

\* items an earlier session can have left in the store
SavedItem(id) == [id |-> id, timestamp |-> id, duration |-> id]

SavedStores == { { SavedItem(k) : k \in 1..n } : n \in 0..(MaxItems - 1) }

Engine ==
    [activeId |-> activeId, isPlaying |-> isPlaying,
     currentTime |-> currentTime, duration |-> duration,
     playbackRate |-> playbackRate, volume |-> volume,
     previewVoice |-> previewVoice, audioContextRef |-> audioContextRef,
     gainNodeRef |-> gainNodeRef, gainValue |-> gainValue,
     sourceNodeRef |-> sourceNodeRef, previewSourceRef |-> previewSourceRef,
     leaked |-> leaked, startTimeRef |-> startTimeRef,
     rafFrames |-> rafFrames,
     endedEvents |-> endedEvents]

\* (a handler that would queue more than MaxEnded events is not taken)
CommitEngine(e) ==
    /\ activeId' = e.activeId
    /\ isPlaying' = e.isPlaying
    /\ currentTime' = e.currentTime
    /\ duration' = e.duration
    /\ playbackRate' = e.playbackRate
    /\ volume' = e.volume
    /\ previewVoice' = e.previewVoice
    /\ audioContextRef' = e.audioContextRef
    /\ gainNodeRef' = e.gainNodeRef
    /\ gainValue' = e.gainValue
    /\ sourceNodeRef' = e.sourceNodeRef
    /\ previewSourceRef' = e.previewSourceRef
    /\ leaked' = e.leaked
    /\ startTimeRef' = e.startTimeRef
    /\ rafFrames' = e.rafFrames
    /\ endedEvents' = e.endedEvents
    /\ e.endedEvents <= MaxEnded

Commit(e) == CommitEngine(e) /\ UNCHANGED << codecVars, sideVars >>

\* the closure of a render: the state values playAudio captured
Closure(e) ==
    [activeId |-> e.activeId, isPlaying |-> e.isPlaying,
     playbackRate |-> e.playbackRate]

\* history.find(h => h.id === id): the first match, or a record with
\* id NullId for undefined
NoItem == [id |-> NullId, timestamp |-> 0, duration |-> 0]

Find(list, id) ==
    IF \E i \in 1..Len(list) : list[i].id = id
    THEN list[CHOOSE i \in 1..Len(list) :
                /\ list[i].id = id
                /\ \A j \in 1..(i - 1) : list[j].id # id]
    ELSE NoItem

\* setupAudioNodes: gain and analyser are made once, by the context that is
\* current at that moment; a new GainNode has gain 1
setupAudioNodes(e, ctx) ==
    IF e.gainNodeRef = NoCtx
    THEN [e EXCEPT !.gainNodeRef = ctx, !.gainValue = 100]
    ELSE e

\* initAudioContext: create the context on first use (resume of a suspended
\* context changes nothing that is modelled)
initAudioContext(e) ==
    IF e.audioContextRef = NoCtx
    THEN setupAudioNodes([e EXCEPT !.audioContextRef = UserCtx], UserCtx)
    ELSE e

\* variant of stopAudio: a stop that also rewinds the position
stopAudioRewind(e) ==
    [e EXCEPT !.sourceNodeRef = NullSource,
              !.rafFrames = { f \in @ : ~f.current },
              !.isPlaying = FALSE,
              !.currentTime = 0]

\* variant of stopAudio: the source is stopped and the ref keeps naming it
stopAudioKeepSource(e) ==
    [e EXCEPT !.sourceNodeRef = [@ EXCEPT !.emitting = FALSE],
              !.rafFrames = { f \in @ : ~f.current },
              !.isPlaying = FALSE]

\* stopAudio: stop and drop the history source, cancel the frame rafRef
\* names (the most recently requested one), setIsPlaying(false)
stopAudio(e) ==
    [e EXCEPT !.sourceNodeRef = NullSource,
              !.rafFrames = { f \in @ : ~f.current },
              !.isPlaying = FALSE]

\* the position a tick computes: (ctx.currentTime - startTimeRef) * rate
Elapsed(e, rate, t) == ((2 * t - e.startTimeRef) * rate) \div 2

\* variant of tick: at the end the position is the computed one, not the
\* duration
tickNoClamp(e, item, rate, t) ==
    IF Elapsed(e, rate, t) >= item.duration
    THEN [stopAudio(e) EXCEPT !.currentTime = Elapsed(e, rate, t)]
    ELSE [e EXCEPT !.currentTime = Elapsed(e, rate, t),
                   !.rafFrames =
                       { [f EXCEPT !.current = FALSE] : f \in @ }
                       \cup { [item |-> item, rate |-> rate,
                               current |-> TRUE] }]

\* tick of playAudio, closed over the item and the rate of its playAudio
\* call: at the end stopAudio and setCurrentTime(duration), otherwise
\* setCurrentTime(current) and request the next frame (rafRef now names it)
tick(e, item, rate, t) ==
    IF Elapsed(e, rate, t) >= item.duration
    THEN [stopAudio(e) EXCEPT !.currentTime = item.duration]
    ELSE [e EXCEPT !.currentTime = Elapsed(e, rate, t),
                   !.rafFrames =
                       { [f EXCEPT !.current = FALSE] : f \in @ }
                       \cup { [item |-> item, rate |-> rate,
                               current |-> TRUE] }]

\* variant of the preview teardown: the ref is cleared without stop()
DropPreviewSource(e) ==
    [e EXCEPT !.previewSourceRef = NullPreview,
              !.leaked =
                  IF e.previewSourceRef.emitting
                  THEN @ \cup {[kind |-> "preview",
                                what |-> e.previewSourceRef.voice]}
                  ELSE @]

\* previewSourceRef.current.stop(): a source that is still emitting stops
\* and its 'ended' event is queued
StopPreviewSource(e) ==
    [e EXCEPT !.previewSourceRef = NullPreview,
              !.endedEvents =
                  @ + (IF e.previewSourceRef.emitting THEN 1 ELSE 0)]

\* variant of playAudio's preview teardown: the preview is left running
KeepPreview(e) == e

\* playAudio lines 156-161: stop the preview if there is one
StopPreviewForPlay(e) ==
    IF e.previewSourceRef # NullPreview
    THEN [StopPreviewSource(e) EXCEPT !.previewVoice = NoVoice]
    ELSE e

\* playAudio(item, offset) of the render with closure cl, at clock t.
\* Every item of the history carries its decoded buffer.  source.connect
\* throws when the gain node belongs to another context than the one that
\* made the source: the handler ends there, what was done before stays.
playAudio(e, item, offset, cl, t) ==
    LET e1 == initAudioContext(e)
        e2 == IF cl.activeId # item.id THEN stopAudio(e1)
              ELSE IF cl.isPlaying THEN stopAudio(e1)
              ELSE e1
        e3 == StopPreviewForPlay(e2)
        e4 == [e3 EXCEPT
                 !.startTimeRef = 2 * t - ((2 * offset) \div cl.playbackRate),
                 !.leaked = IF e3.sourceNodeRef.emitting
                            THEN @ \cup {[kind |-> "history",
                                          what |-> e3.sourceNodeRef.item]}
                            ELSE @,
                 !.sourceNodeRef = [item |-> item.id, emitting |-> TRUE],
                 !.activeId = item.id,
                 !.duration = item.duration,
                 !.isPlaying = TRUE]
    IN  IF e1.gainNodeRef = NoCtx THEN e1
        ELSE IF e3.audioContextRef # e3.gainNodeRef THEN e3
        ELSE tick(e4, item, cl.playbackRate, t)

\* source.connect(gainNodeRef.current) of a playAudio or handlePreviewVoice
\* call made in state e throws (InvalidAccessError): the gain node was made
\* by another context than the one the source is made by
ConnectThrows(e) ==
    initAudioContext(e).audioContextRef # initAudioContext(e).gainNodeRef

\* number of sources that are emitting
Emitting(e) ==
    (IF e.sourceNodeRef.emitting THEN 1 ELSE 0)
    + (IF e.previewSourceRef.emitting THEN 1 ELSE 0)
    + Cardinality(e.leaked)

\* ---- handlers ----------------------------------------------------------

\* handlers of the engine leave the list, the store and the clock alone
AppQuiet ==
    UNCHANGED << history, isGenerating, generateClosure, now, store,
                 loadPending, pendingDeletes, pendingClear, nextId,
                 generateVars >>

\* HistoryItem play button of an item that is not the active playing one:
\* onPlay = () => playAudio(item, 0)
PlayItem(i) ==
    /\ i \in 1..Len(history)
    /\ ~(activeId = history[i].id /\ isPlaying)
    /\ Commit(playAudio(Engine, history[i], 0, Closure(Engine), now))
    /\ AppQuiet

\* variant of handlePlayPause: with no active item and an empty list the
\* position is reset instead of nothing being done
handlePlayPauseResetIdle(e, list, t) ==
    IF e.activeId = NullId /\ Len(list) > 0
    THEN playAudio(e, list[1], 0, Closure(e), t)
    ELSE IF e.activeId = NullId THEN [stopAudio(e) EXCEPT !.currentTime = 0]
    ELSE IF Find(list, e.activeId) = NoItem THEN e
    ELSE IF e.isPlaying
         THEN stopAudio(e)
         ELSE playAudio(e, Find(list, e.activeId),
                        IF e.currentTime >= e.duration THEN 0
                        ELSE e.currentTime,
                        Closure(e), t)

\* handlePlayPause (player button, space key, pause button of the active
\* item).  pauseTimeRef is written here and in handleSeek and read nowhere
\* in the program: it is no part of the state.
handlePlayPause(e, list, t) ==
    IF e.activeId = NullId /\ Len(list) > 0
    THEN playAudio(e, list[1], 0, Closure(e), t)
    ELSE IF e.activeId = NullId THEN e
    ELSE IF Find(list, e.activeId) = NoItem THEN e
    ELSE IF e.isPlaying
         THEN stopAudio(e)
         ELSE playAudio(e, Find(list, e.activeId),
                        IF e.currentTime >= e.duration THEN 0
                        ELSE e.currentTime,
                        Closure(e), t)

HandlePlayPause ==
    /\ Commit(handlePlayPause(Engine, history, now))
    /\ AppQuiet

\* Escape key: stopAudio()
EscapeKey ==
    /\ Commit(stopAudio(Engine))
    /\ AppQuiet

\* handleSeek(time): slider and skip buttons give 0 <= time <= max(duration, 1)
handleSeek(e, list, time, t) ==
    IF e.activeId = NullId THEN e
    ELSE IF Find(list, e.activeId) = NoItem THEN e
    ELSE LET e1 == [e EXCEPT !.currentTime = time]
         IN  IF e.isPlaying
             THEN playAudio(e1, Find(list, e.activeId), time, Closure(e), t)
             ELSE e1

HandleSeek(time) ==
    /\ time \in 0..Max(duration, 1)
    /\ Commit(handleSeek(Engine, history, time, now))
    /\ AppQuiet

\* setPlaybackRate(r) and the [playbackRate] effect of the next render
SetPlaybackRate(r) ==
    /\ r \in Rates
    /\ r # playbackRate
    /\ LET e1 == [Engine EXCEPT !.playbackRate = r]
           item == Find(history, activeId)
       IN  Commit(IF isPlaying /\ activeId # NullId /\ item # NoItem
                  THEN playAudio(e1, item, currentTime, Closure(e1), now)
                  ELSE e1)
    /\ AppQuiet

\* variant of SetVolume: the [volume] effect restarts the playing item the
\* way the [playbackRate] effect does
SetVolumeRestart(v) ==
    /\ v \in Volumes
    /\ v # volume
    /\ LET e1 == [Engine EXCEPT
                   !.volume = v,
                   !.gainValue = IF gainNodeRef # NoCtx THEN v ELSE @]
           item == Find(history, activeId)
       IN  Commit(IF isPlaying /\ activeId # NullId /\ item # NoItem
                  THEN playAudio(e1, item, currentTime, Closure(e1), now)
                  ELSE e1)
    /\ AppQuiet

\* setVolume(v) and the [volume] effect of the next render
SetVolume(v) ==
    /\ v \in Volumes
    /\ v # volume
    /\ Commit([Engine EXCEPT !.volume = v,
                             !.gainValue = IF gainNodeRef # NoCtx THEN v
                                           ELSE @])
    /\ AppQuiet

\* handlePreviewVoice(voiceName): VOICE_PREVIEWS holds no sample, so the tone
\* is synthesized and the handler runs without suspending
handlePreviewVoice(e, voiceName) ==
    LET e1 == initAudioContext(e)
        e2 == IF e.isPlaying THEN stopAudio(e1) ELSE e1
        e3 == IF e2.previewSourceRef # NullPreview
              THEN StopPreviewSource(e2) ELSE e2
    IN  IF e1.gainNodeRef = NoCtx THEN e1
        ELSE IF e.previewVoice = voiceName
             THEN [e3 EXCEPT !.previewVoice = NoVoice]
        ELSE IF e3.audioContextRef # e3.gainNodeRef
             THEN [e3 EXCEPT !.previewVoice = NoVoice]
        ELSE [e3 EXCEPT !.previewVoice = voiceName,
                        !.previewSourceRef =
                            [voice |-> voiceName, emitting |-> TRUE]]

HandlePreviewVoice(voiceName) ==
    /\ voiceName \in Voices
    /\ Commit(handlePreviewVoice(Engine, voiceName))
    /\ AppQuiet

\* the preview tone reaches its end
PreviewSourceEnds ==
    /\ previewSourceRef.emitting
    /\ endedEvents < MaxEnded
    /\ previewSourceRef' = [previewSourceRef EXCEPT !.emitting = FALSE]
    /\ endedEvents' = endedEvents + 1
    /\ UNCHANGED sideVars
    /\ UNCHANGED << codecVars, activeId, isPlaying, currentTime, duration,
                    playbackRate, volume, previewVoice, audioContextRef,
                    gainNodeRef, gainValue, sourceNodeRef, leaked,
                    startTimeRef, rafFrames >>
    /\ AppQuiet

\* source.onended = () => setPreviewVoice(null)
PreviewEnded ==
    /\ endedEvents > 0
    /\ endedEvents' = endedEvents - 1
    /\ previewVoice' = NoVoice
    /\ UNCHANGED sideVars
    /\ UNCHANGED << codecVars, activeId, isPlaying, currentTime, duration,
                    playbackRate, volume, audioContextRef, gainNodeRef,
                    gainValue, sourceNodeRef, previewSourceRef, leaked,
                    startTimeRef, rafFrames >>
    /\ AppQuiet

\* a display frame: the pending callback f runs
Tick(f) ==
    /\ f \in rafFrames
    /\ Commit(tick([Engine EXCEPT !.rafFrames = @ \ {f}], f.item, f.rate, now))
    /\ AppQuiet

\* the device clock advances
AdvanceClock ==
    /\ now < MaxClock
    /\ now' = now + 1
    /\ UNCHANGED sideVars
    /\ UNCHANGED << codecVars, engineVars, history, isGenerating,
                    generateClosure, store, loadPending, pendingDeletes,
                    pendingClear, nextId, generateVars >>

\* handleGenerate up to `await generateSpeech(...)`: the button is disabled
\* while a generation is in flight; the continuation keeps this render's
\* playAudio
GenerateClick ==
    /\ isGenerating = FALSE
    /\ nextId <= MaxItems
    /\ isGenerating' = TRUE
    /\ generateClosure' = Closure(Engine)
    /\ Commit(initAudioContext(Engine))
    /\ UNCHANGED << history, now, store, loadPending, pendingDeletes,
                    pendingClear, nextId, generateVars >>

\* the service call or the decode fails: catch, toast, finally
GenerateFails ==
    /\ isGenerating
    /\ isGenerating' = FALSE
    /\ generateClosure' = NoClosure
    /\ UNCHANGED sideVars
    /\ UNCHANGED << codecVars, engineVars, history, now, store, loadPending,
                    pendingDeletes, pendingClear, nextId, generateVars >>

\* the sample stream is decoded, the item saved (await db.saveItem), then
\* prepended to the history and played by the click-time playAudio
GenerateDone(d) ==
    /\ isGenerating
    /\ d \in Durations
    /\ LET newItem == [id |-> nextId, timestamp |-> nextId, duration |-> d]
       IN  /\ store' = { r \in store : r.id # newItem.id } \cup {newItem}
           /\ history' = << newItem >> \o history
           /\ Commit(playAudio(Engine, newItem, 0, generateClosure, now))
    /\ isGenerating' = FALSE
    /\ generateClosure' = NoClosure
    /\ nextId' = nextId + 1
    /\ UNCHANGED << now, loadPending, pendingDeletes, pendingClear,
                    generateVars >>

\* store requests (deleteItem, clearDB) that have not returned
InFlight == Cardinality(pendingDeletes) + (IF pendingClear THEN 1 ELSE 0)

\* handleDelete(id) up to `await db.deleteItem(id)`
DeleteClick(i) ==
    /\ i \in 1..Len(history)
    /\ InFlight < MaxPending
    /\ Commit(IF activeId = history[i].id THEN stopAudio(Engine) ELSE Engine)
    /\ pendingDeletes' = pendingDeletes \cup {history[i].id}
    /\ UNCHANGED << history, isGenerating, generateClosure, now, store,
                    loadPending, pendingClear, nextId, generateVars >>

\* the delete request succeeds: setHistory(prev => prev.filter(...))
DeleteDone(id) ==
    /\ id \in pendingDeletes
    /\ pendingDeletes' = pendingDeletes \ {id}
    /\ store' = { r \in store : r.id # id }
    /\ history' = SelectSeq(history, LAMBDA item : item.id # id)
    /\ UNCHANGED sideVars
    /\ UNCHANGED << codecVars, engineVars, isGenerating, generateClosure, now,
                    loadPending, pendingClear, nextId, generateVars >>

\* handleClearAll, confirmed, up to `await db.clearDB()`
ClearAllClick ==
    /\ ~pendingClear
    /\ InFlight < MaxPending
    /\ Commit(stopAudio(Engine))
    /\ pendingClear' = TRUE
    /\ UNCHANGED << history, isGenerating, generateClosure, now, store,
                    loadPending, pendingDeletes, nextId, generateVars >>

\* the clear request succeeds: setHistory([]); setActiveId(null)
ClearAllDone ==
    /\ pendingClear
    /\ pendingClear' = FALSE
    /\ store' = {}
    /\ history' = << >>
    /\ Commit([Engine EXCEPT !.activeId = NullId])
    /\ UNCHANGED << isGenerating, generateClosure, now, loadPending,
                    pendingDeletes, nextId, generateVars >>

\* hydratedItems.sort((a, b) => b.timestamp - a.timestamp)
RECURSIVE SortByTimestampDesc(_)
SortByTimestampDesc(items) ==
    IF items = {} THEN << >>
    ELSE LET newest == CHOOSE r \in items :
                         \A q \in items : q.timestamp <= r.timestamp
         IN  << newest >> \o SortByTimestampDesc(items \ {newest})

\* loadHistory returns: with saved items it makes its own AudioContext,
\* replaces the history and overwrites audioContextRef
LoadHistoryDone ==
    /\ loadPending
    /\ loadPending' = FALSE
    /\ IF store # {}
       THEN /\ history' = SortByTimestampDesc(store)
            /\ Commit(setupAudioNodes(
                        [Engine EXCEPT !.audioContextRef = LoadCtx], LoadCtx))
       ELSE UNCHANGED << codecVars, sideVars, history, engineVars >>
    /\ UNCHANGED << isGenerating, generateClosure, now, store, pendingDeletes,
                    pendingClear, nextId, generateVars >>

Init ==
    /\ cpc = "idle"
    /\ base64Data = << >>
    /\ sampleRate = SAMPLE_RATE
    /\ numChannels = 1
    /\ buffer = NoBuffer
    /\ wavBlob = None
    /\ reDecoded = None
    /\ mp3Client = None
    /\ pcmBuffer = None
    /\ wavHeader = None
    /\ mp3Server = None
    /\ \E saved \in SavedStores : AppMounted(saved)

Next ==
    \/ \E i \in 1..MaxItems : PlayItem(i)
    \/ HandlePlayPause
    \/ EscapeKey
    \/ \E time \in 0..Max(duration, 1) : HandleSeek(time)
    \/ \E r \in Rates : SetPlaybackRate(r)
    \/ \E v \in Volumes : SetVolume(v)
    \/ \E voiceName \in Voices : HandlePreviewVoice(voiceName)
    \/ PreviewSourceEnds
    \/ PreviewEnded
    \/ \E f \in rafFrames : Tick(f)
    \/ AdvanceClock
    \/ GenerateClick
    \/ GenerateFails
    \/ \E d \in Durations : GenerateDone(d)
    \/ \E i \in 1..MaxItems : DeleteClick(i)
    \/ \E id \in pendingDeletes : DeleteDone(id)
    \/ ClearAllClick
    \/ ClearAllDone
    \/ LoadHistoryDone

Spec == Init /\ [][Next]_vars

\* ------------------------------------------------------------------------
\* Generation specification: handleGenerate followed await by await, with
\* the decoder applied to what the service returned, beside the handlers
\* that play what is in the list
\* ------------------------------------------------------------------------

\* toasts no timer has dismissed yet
MaxToasts == 2

\* short sample streams of 0..MaxShortLen bytes
GeneratedPcm == { [i \in 1..n |-> 1] : n \in 0..MaxShortLen }

\* what generateSpeech can resolve with: the text of a short stream, whole
\* or damaged; it throws instead of returning an empty text
GenerateInputs == UNION { RawVariants(b) : b \in GeneratedPcm } \ { << >> }

\* buffer.duration in the whole units the clock of the model counts,
\* rounded up: a position n in whole units has n >= length / sampleRate
\* exactly when n >= this
ItemDuration(b) == (b.length + b.sampleRate - 1) \div b.sampleRate

\* addToast(type, message)
addToast(list, type, message) ==
    Append(list, [type |-> type, message |-> message])

\* handleGenerate up to `await generateSpeech(...)`, for a text that is
\* neither empty nor too long (the button is disabled while isGenerating)
HandleGenerate ==
    /\ ~isGenerating
    /\ nextId <= MaxItems
    /\ Len(toasts) < MaxToasts
    /\ isGenerating' = TRUE
    /\ generateClosure' = Closure(Engine)
    /\ generation' = [NoGeneration EXCEPT !.at = "generateSpeech"]
    /\ Commit(initAudioContext(Engine))
    /\ UNCHANGED << history, now, store, loadPending, pendingDeletes,
                    pendingClear, nextId, toasts >>

\* generateSpeech resolves with base64 text; decodeAudioData is called
GenerateSpeechResolves(data) ==
    /\ generation.at = "generateSpeech"
    /\ data \in GenerateInputs
    /\ generation' = [generation EXCEPT !.at = "decodeAudioData",
                                        !.base64Data = data]
    /\ UNCHANGED sideVars
    /\ UNCHANGED << codecVars, engineVars, appVars, toasts >>

\* generateSpeech rejects: catch (error toast), finally
GenerateSpeechRejects ==
    /\ generation.at = "generateSpeech"
    /\ toasts' = addToast(toasts, "error", "generateSpeech")
    /\ isGenerating' = FALSE
    /\ generateClosure' = NoClosure
    /\ generation' = NoGeneration
    /\ UNCHANGED sideVars
    /\ UNCHANGED << codecVars, engineVars, history, now, store, loadPending,
                    pendingDeletes, pendingClear, nextId >>

\* decodeAudioData resolves with a buffer; db.saveItem(newItem) is called
DecodeResolves ==
    /\ generation.at = "decodeAudioData"
    /\ LET b == decodeAudioData(generation.base64Data, SAMPLE_RATE, 1)
       IN  /\ b.status = "ok"
           /\ generation' = [generation EXCEPT !.at = "saveItem",
                                               !.buffer = b]
    /\ UNCHANGED sideVars
    /\ UNCHANGED << codecVars, engineVars, appVars, toasts >>

\* variant of DecodeRejects: the item is saved and listed before the
\* stream is decoded, so a failed decode leaves it behind
DecodeRejectsAfterSave ==
    /\ generation.at = "decodeAudioData"
    /\ LET b == decodeAudioData(generation.base64Data, SAMPLE_RATE, 1)
           newItem == [id |-> nextId, timestamp |-> nextId, duration |-> 0]
       IN  /\ b.status = "error"
           /\ toasts' = addToast(toasts, "error", b.error)
           /\ store' = store \cup {newItem}
           /\ history' = << newItem >> \o history
    /\ isGenerating' = FALSE
    /\ generateClosure' = NoClosure
    /\ generation' = NoGeneration
    /\ UNCHANGED sideVars
    /\ UNCHANGED << codecVars, engineVars, now, loadPending, pendingDeletes,
                    pendingClear, nextId >>

\* decodeAudioData throws: catch (toast with the error's message), finally
DecodeRejects ==
    /\ generation.at = "decodeAudioData"
    /\ LET b == decodeAudioData(generation.base64Data, SAMPLE_RATE, 1)
       IN  /\ b.status = "error"
           /\ toasts' = addToast(toasts, "error", b.error)
    /\ isGenerating' = FALSE
    /\ generateClosure' = NoClosure
    /\ generation' = NoGeneration
    /\ UNCHANGED sideVars
    /\ UNCHANGED << codecVars, engineVars, history, now, store, loadPending,
                    pendingDeletes, pendingClear, nextId >>

\* db.saveItem resolves: the item is prepended and played by the click-time
\* playAudio; a playAudio that throws at source.connect is caught like any
\* other error of the try block
SaveItemResolves ==
    /\ generation.at = "saveItem"
    /\ LET newItem == [id |-> nextId, timestamp |-> nextId,
                       duration |-> ItemDuration(generation.buffer)]
       IN  /\ store' = { r \in store : r.id # newItem.id } \cup {newItem}
           /\ history' = << newItem >> \o history
           /\ Commit(playAudio(Engine, newItem, 0, generateClosure, now))
    /\ toasts' = IF ConnectThrows(Engine)
                 THEN addToast(toasts, "error", "InvalidAccessError")
                 ELSE addToast(toasts, "success", "Audio generated")
    /\ isGenerating' = FALSE
    /\ generateClosure' = NoClosure
    /\ generation' = NoGeneration
    /\ nextId' = nextId + 1
    /\ UNCHANGED << now, loadPending, pendingDeletes, pendingClear >>

GenerateNext ==
    \/ HandleGenerate
    \/ \E data \in GenerateInputs : GenerateSpeechResolves(data)
    \/ GenerateSpeechRejects
    \/ DecodeResolves
    \/ DecodeRejects
    \/ SaveItemResolves
    \/ LoadHistoryDone
    \/ \E i \in 1..MaxItems : PlayItem(i)
    \/ HandlePlayPause
    \/ \E f \in rafFrames : Tick(f)
    \/ AdvanceClock

GenerateSpec == Init /\ [][GenerateNext]_vars

\* ------------------------------------------------------------------------
\* Store specification: utils/db.ts request by request
\* ------------------------------------------------------------------------

MaxRequests == 3

\* a GeneratedAudio as handleGenerate builds it: its sample stream has id
\* frames, its duration is that of the decoded buffer; the buffer is
\* attached (hydrated) or null
GeneratedAudio(id, text, isFavorite, hydrated) ==
    LET base64 == B64Encode([k \in 1..(2 * id) |-> k % 2])
        decoded == decodeAudioData(base64, SAMPLE_RATE, 1)
    IN  [id |-> id, text |-> text, voice |-> "Puck", style |-> "Natural",
         timestamp |-> id,
         audioBuffer |-> IF hydrated THEN decoded ELSE NoBuffer,
         base64 |-> base64, duration |-> BufferDuration(decoded),
         mode |-> "single", isFavorite |-> isFavorite]

\* the items handed to saveItem: with and without a decoded buffer, two
\* texts, both favourite flags
HistoryItems ==
    { GeneratedAudio(id, text, isFavorite, hydrated) :
        id \in 1..MaxItems, text \in {"a", "b"},
        isFavorite \in BOOLEAN, hydrated \in BOOLEAN }

\* IDBObjectStore.put with keyPath 'id': the record replaces the one that
\* has its key
storePut(s, record) == { r \in s : r.id # record.id } \cup {record}

\* saveItem: const { audioBuffer, ...itemToSave } = item; store.put(...)
saveItemWhole(s, item) == storePut(s, item)

saveItem(s, item) ==
    LET itemToSave == [f \in DOMAIN item \ {"audioBuffer"} |-> item[f]]
    IN  storePut(s, itemToSave)

\* deleteItem: store.delete(id)
deleteItem(s, id) == { r \in s : r.id # id }

\* clearDB: store.clear()
clearDB(s) == {}

\* getAllItems: store.getAll(), the records in key order
RECURSIVE getAllItems(_)
getAllItems(s) ==
    IF s = {}
    THEN << >>
    ELSE LET first == CHOOSE r \in s : \A q \in s : r.id <= q.id
         IN  << first >> \o getAllItems(s \ {first})

StoreFrame ==
    UNCHANGED << codecVars, engineVars, generateVars, history, isGenerating,
                 generateClosure, now, loadPending, pendingDeletes,
                 pendingClear, nextId, sessionFile, importing,
                 pendingToggles, vizMode, visualizer, toastTimers >>

StoreInit == Init /\ store = {}

SaveItem(item) ==
    /\ Len(storeLog) < MaxRequests
    /\ store' = saveItem(store, item)
    /\ storeLog' = Append(storeLog, [op |-> "put", item |-> item])
    /\ StoreFrame

DeleteItem(id) ==
    /\ Len(storeLog) < MaxRequests
    /\ store' = deleteItem(store, id)
    /\ storeLog' = Append(storeLog, [op |-> "delete", id |-> id])
    /\ StoreFrame

ClearDB ==
    /\ Len(storeLog) < MaxRequests
    /\ store' = clearDB(store)
    /\ storeLog' = Append(storeLog, [op |-> "clear"])
    /\ StoreFrame

GetAllItems ==
    /\ Len(storeLog) < MaxRequests
    /\ storeLog' =
           Append(storeLog, [op |-> "getAll", result |-> getAllItems(store)])
    /\ UNCHANGED store
    /\ StoreFrame

StoreNext ==
    \/ \E item \in HistoryItems : SaveItem(item)
    \/ \E id \in 1..MaxItems : DeleteItem(id)
    \/ ClearDB
    \/ GetAllItems

StoreSpec == StoreInit /\ [][StoreNext]_vars

\* ------------------------------------------------------------------------
\* Session specification: handleExportSession, handleImportSession and
\* handleToggleFavorite, await by await
\* ------------------------------------------------------------------------

\* favourite toggles waiting for db.saveItem
MaxToggles == 2

\* entries of the history list
MaxHistory == 2

\* JSON.stringify of an object: its own properties as name/value members
Members(object) == { << k, object[k] >> : k \in DOMAIN object }

\* JSON.parse of the members of an object
ObjectOf(members) ==
    [k \in { m[1] : m \in members } |->
        (CHOOSE m \in members : m[1] = k)[2]]

\* JSON.stringify(exportData): the document's members, the history array
\* as the members of each entry; the text is complete
JSONstringify(data) ==
    [complete |-> TRUE,
     members |->
        { IF m[1] = "history"
          THEN << "history", [i \in 1..Len(m[2]) |-> Members(m[2][i])] >>
          ELSE m : m \in Members(data) }]

\* JSON.parse(text): a SyntaxError for a text that breaks off
JSONparse(text) ==
    IF ~text.complete
    THEN [status |-> "error", error |-> "SyntaxError"]
    ELSE [status |-> "ok",
          value |->
             ObjectOf({ IF m[1] = "history"
                        THEN << "history",
                                [i \in 1..Len(m[2]) |-> ObjectOf(m[2][i])] >>
                        ELSE m : m \in text.members })]

\* variant of rest: the entry keeps the decoded buffer
restWhole(item) == item

\* ({ audioBuffer, ...rest }) => rest
rest(item) == [f \in DOMAIN item \ {"audioBuffer"} |-> item[f]]

\* { ...item, audioBuffer: buffer }
withBuffer(item, decoded) ==
    [f \in DOMAIN item \cup {"audioBuffer"} |->
        IF f = "audioBuffer" THEN decoded ELSE item[f]]

\* an entry of a session document written elsewhere: the fields of
\* Omit<GeneratedAudio, 'audioBuffer'>, the sample text of 3 * id silent
\* frames and their duration
SessionEntry(id) ==
    [id |-> id, text |-> "a", voice |-> "Puck", style |-> "Natural",
     timestamp |-> id, base64 |-> [k \in 1..(8 * id) |-> 0],
     duration |-> [num |-> 3 * id, den |-> SAMPLE_RATE],
     mode |-> "single", isFavorite |-> FALSE]

\* history arrays of session documents written elsewhere: no, one or two
\* conforming entries
ForeignHistories ==
    { << >>, << SessionEntry(2), SessionEntry(1) >> }
    \cup { << SessionEntry(id) >> : id \in 1..MaxItems }

\* the same array with the sample text of entry i damaged
Damaged(entries, i) ==
    [entries EXCEPT ![i] = [@ EXCEPT !.base64 = @ \o << BadChar >>]]

\* session files a user can pick: conforming documents of version 1,
\* documents of another version or of none, a document without a history
\* array, documents with an entry that does not decode, and a text that
\* breaks off
ForeignFiles ==
    { JSONstringify([version |-> v, timestamp |-> 0, history |-> h]) :
        v \in {1, 2}, h \in ForeignHistories }
    \cup { JSONstringify([timestamp |-> 0, history |-> h]) :
            h \in ForeignHistories }
    \cup { JSONstringify([version |-> 1, timestamp |-> 0]) }
    \cup UNION { { JSONstringify([version |-> 1, timestamp |-> 0,
                                  history |-> Damaged(h, i)]) :
                    i \in 1..Len(h) } : h \in ForeignHistories }
    \cup { [JSONstringify([version |-> 1, timestamp |-> 0,
                           history |-> << >>])
               EXCEPT !.complete = FALSE] }

SessionFrame ==
    UNCHANGED << codecVars, storeLog, vizMode, visualizer, toastTimers >>

\* handleExportSession
ExportSession ==
    /\ Len(toasts) + (IF importing.at = "saving" THEN 1 ELSE 0) < MaxToasts
    /\ LET exportData ==
               [version |-> 1, timestamp |-> now,
                history |-> [i \in 1..Len(history) |-> rest(history[i])]]
       IN  sessionFile' = JSONstringify(exportData)
    /\ toasts' = addToast(toasts, "success", "Session exported")
    /\ UNCHANGED << codecVars, engineVars, appVars, generation, storeLog,
                    importing, pendingToggles, vizMode, visualizer,
                    toastTimers >>

\* reader.onload of handleImportSession up to the first await that leaves
\* the microtask queue: parse, initAudioContext, every decodeAudioData, and
\* the catch block when the parse or a decode threw; one import at a time
ImportFileRead(text) ==
    /\ importing.at = "none"
    /\ Len(toasts) < MaxToasts
    /\ LET parsed == JSONparse(text)
       IN  parsed.status = "ok" /\ "history" \in DOMAIN parsed.value
             => Len(history) + Len(parsed.value.history) <= MaxHistory
    /\ LET parsed == JSONparse(text)
           data == parsed.value
           entries == data.history
           buffers == [i \in 1..Len(entries) |->
                          decodeAudioData(entries[i].base64, SAMPLE_RATE, 1)]
           decodes == { i \in 1..Len(entries) : buffers[i].status = "ok" }
           rejected == decodes # 1..Len(entries)
       IN  IF parsed.status = "error"
           THEN /\ toasts' = addToast(toasts, "error", "Invalid session file")
                /\ importing' = [NoImport EXCEPT !.result = text]
                /\ UNCHANGED engineVars
           ELSE IF "history" \notin DOMAIN data
           THEN /\ importing' = [NoImport EXCEPT !.result = text]
                /\ UNCHANGED << engineVars, toasts >>
           ELSE /\ CommitEngine(initAudioContext(Engine))
                /\ importing' =
                       [at |-> IF decodes = {} THEN "none" ELSE "saving",
                        result |-> text,
                        hydrated |-> [i \in 1..Len(entries) |->
                                         withBuffer(entries[i], buffers[i])],
                        pending |-> decodes,
                        rejected |-> rejected]
                /\ toasts' =
                       IF rejected
                       THEN addToast(toasts, "error", "Invalid session file")
                       ELSE IF decodes = {}
                       THEN addToast(toasts, "success", "Imported 0 items")
                       ELSE toasts
    /\ UNCHANGED << appVars, generation, sessionFile, pendingToggles >>
    /\ SessionFrame

\* db.saveItem of entry i resolves; after the last one of an import in
\* which nothing threw, Promise.all resolves: setHistory, success toast
ImportSaveResolves(i) ==
    /\ importing.at = "saving"
    /\ i \in importing.pending
    /\ store' = saveItem(store, importing.hydrated[i])
    /\ LET last == importing.pending = {i}
       IN  /\ importing' = [importing EXCEPT !.pending = @ \ {i},
                               !.at = IF last THEN "none" ELSE "saving"]
           /\ IF last /\ ~importing.rejected
              THEN /\ history' = importing.hydrated \o history
                   /\ toasts' = addToast(toasts, "success", "Imported items")
              ELSE UNCHANGED << history, toasts >>
    /\ UNCHANGED << engineVars, isGenerating, generateClosure, now,
                    loadPending, pendingDeletes, pendingClear, nextId,
                    generation, sessionFile, pendingToggles >>
    /\ SessionFrame

\* handleToggleFavorite(id) up to `await db.saveItem(newItem)`
ToggleFavoriteClick(id) ==
    /\ Len(pendingToggles) < MaxToggles
    /\ \E i \in 1..Len(history) : history[i].id = id
    /\ LET item == Find(history, id)
       IN  pendingToggles' =
               Append(pendingToggles,
                      [item EXCEPT !.isFavorite = ~item.isFavorite])
    /\ UNCHANGED << engineVars, appVars, generateVars, sessionFile,
                    importing >>
    /\ SessionFrame

\* db.saveItem(newItem) resolves: setHistory(prev => prev.map(...))
ToggleFavoriteSaved ==
    /\ pendingToggles # << >>
    /\ LET newItem == Head(pendingToggles)
       IN  /\ store' = saveItem(store, newItem)
           /\ history' = [i \in 1..Len(history) |->
                             IF history[i].id = newItem.id
                             THEN newItem ELSE history[i]]
    /\ pendingToggles' = Tail(pendingToggles)
    /\ UNCHANGED << engineVars, isGenerating, generateClosure, now,
                    loadPending, pendingDeletes, pendingClear, nextId,
                    generateVars, sessionFile, importing >>
    /\ SessionFrame

\* dismissToast(id) for the toast at place k (the timer of the oldest
\* toast is the first to fire)
dismissToast(list, k) ==
    [i \in 1..(Len(list) - 1) |-> IF i < k THEN list[i] ELSE list[i + 1]]

DismissToast(k) ==
    /\ k \in 1..Len(toasts)
    /\ toasts' = dismissToast(toasts, k)
    /\ UNCHANGED << codecVars, engineVars, appVars, generation, sideVars >>

SessionNext ==
    \/ ExportSession
    \/ \E text \in ForeignFiles \cup ({sessionFile} \ {None}) :
           ImportFileRead(text)
    \/ \E i \in 1..(2 * MaxItems) : ImportSaveResolves(i)
    \/ \E id \in 1..MaxItems : ToggleFavoriteClick(id)
    \/ ToggleFavoriteSaved
    \/ DismissToast(1)

SessionSpec == StoreInit /\ [][SessionNext]_vars

\* ------------------------------------------------------------------------
\* Synchronisation specification: the handlers that write the store and
\* the list (load of an empty store, import, favourite, delete, clear-all),
\* await by await
\* ------------------------------------------------------------------------

\* the session files picked: a conforming document of two entries, and the
\* same with the sample text of its second entry damaged
SyncFiles ==
    LET h == << SessionEntry(2), SessionEntry(1) >>
    IN  { JSONstringify([version |-> 1, timestamp |-> 0, history |-> h]),
          JSONstringify([version |-> 1, timestamp |-> 0,
                         history |-> Damaged(h, 2)]) }

SyncNext ==
    \/ store = {} /\ LoadHistoryDone
    \/ \E text \in SyncFiles : ImportFileRead(text)
    \/ \E i \in 1..(2 * MaxItems) : ImportSaveResolves(i)
    \/ \E id \in 1..MaxItems : ToggleFavoriteClick(id)
    \/ ToggleFavoriteSaved
    \/ \E i \in 1..MaxItems : DeleteClick(i)
    \/ \E id \in pendingDeletes : DeleteDone(id)
    \/ ClearAllClick
    \/ ClearAllDone
    \/ DismissToast(1)

SyncSpec == StoreInit /\ [][SyncNext]_vars

\* ------------------------------------------------------------------------
\* Visualizer specification: the component's effect and its animation
\* frames, beside the handlers that start and stop playback
\* ------------------------------------------------------------------------

\* queries of the analyser counted
MaxSnapshots == 2

\* the props App passes when it renders: the Visualizer is rendered only
\* with an active item; analyserRef.current is the analyser of the route
VisualizerProps(e, mode) ==
    IF e.activeId = NullId
    THEN [mounted |-> FALSE]
    ELSE [mounted |-> TRUE, analyser |-> e.gainNodeRef,
          isPlaying |-> e.isPlaying, mode |-> mode]

\* whether the effect of a render got past `if (!canvas || !analyser) return`
EffectRan(props) == props.mounted /\ props.analyser # NoCtx

\* draw(): request the next frame, clear, query the analyser, paint
draw(v, mode) ==
    [v EXCEPT !.frame = TRUE, !.canvas = mode, !.snapshots = @ + 1]

\* variant of visualizerEffect: the frame animationRef names is never
\* cancelled
visualizerEffectNoCancel(v, props) ==
    LET v1 == [v EXCEPT !.props = props]
    IN  IF ~EffectRan(props) THEN v1
        ELSE IF props.isPlaying THEN draw(v1, props.mode)
        ELSE [v1 EXCEPT !.canvas = "idle"]

\* the effect for new props: the cleanup of the previous effect cancels the
\* frame animationRef names; then draw() when playing, else the static
\* line and another cancel
visualizerEffect(v, props) ==
    LET cleaned == IF EffectRan(v.props) THEN [v EXCEPT !.frame = FALSE] ELSE v
        v1 == [cleaned EXCEPT !.props = props]
    IN  IF ~EffectRan(props) THEN v1
        ELSE IF props.isPlaying THEN draw(v1, props.mode)
        ELSE [v1 EXCEPT !.canvas = "idle", !.frame = FALSE]

VisualizerFrame ==
    UNCHANGED << codecVars, engineVars, appVars, generateVars, storeLog,
                 sessionFile, importing, pendingToggles, toastTimers >>

\* React commits a render and runs the effect, its dependencies
\* [analyser, isPlaying, color, mode] having changed
RenderVisualizer ==
    /\ visualizer.props # VisualizerProps(Engine, vizMode)
    /\ VisualizerProps(Engine, vizMode).mounted /\ Engine.isPlaying
         => visualizer.snapshots < MaxSnapshots
    /\ visualizer' = visualizerEffect(visualizer,
                                      VisualizerProps(Engine, vizMode))
    /\ UNCHANGED vizMode
    /\ VisualizerFrame

\* the browser runs the animation frame draw() requested
DrawFrame ==
    /\ visualizer.frame
    /\ visualizer.snapshots < MaxSnapshots
    /\ visualizer' = draw(visualizer, visualizer.props.mode)
    /\ UNCHANGED vizMode
    /\ VisualizerFrame

\* the mode toggle: setVizMode(mode)
SetVizMode(mode) ==
    /\ vizMode # mode
    /\ vizMode' = mode
    /\ UNCHANGED visualizer
    /\ VisualizerFrame

VisualizerNext ==
    \/ LoadHistoryDone
    \/ \E i \in 1..MaxItems : PlayItem(i)
    \/ HandlePlayPause
    \/ \E f \in rafFrames : Tick(f)
    \/ AdvanceClock
    \/ RenderVisualizer
    \/ DrawFrame
    \/ \E mode \in {"spectrum", "waveform"} : SetVizMode(mode)

VisualizerSpec == Init /\ [][VisualizerNext]_vars

\* ------------------------------------------------------------------------
\* Playout specification: the playback engine with a clock that runs long
\* enough for every item to reach its end, the frame monitor and the clock
\* under weak fairness
\* ------------------------------------------------------------------------

\* the device clock of this specification runs to MaxPlayout, and on while
\* an item is playing
MaxPlayout == 3

\* audioContextRef.current.currentTime advances by one unit; display frames
\* are shorter than a unit, so the pending frame callback has run since
\* the last advance
PlayoutClock ==
    /\ now < MaxPlayout \/ isPlaying
    /\ \A f \in rafFrames :
         f.current => Elapsed(Engine, f.rate, now) = currentTime
    /\ now' = now + 1
    /\ UNCHANGED sideVars
    /\ UNCHANGED << codecVars, engineVars, history, isGenerating,
                    generateClosure, store, loadPending, pendingDeletes,
                    pendingClear, nextId, generateVars >>

\* the user acts during the first MaxClock units of the clock and leaves
\* the player alone from then on
HandsOn == now <= MaxClock

PlayoutNext ==
    \/ HandsOn /\ \E i \in 1..MaxItems : PlayItem(i)
    \/ HandsOn /\ HandlePlayPause
    \/ HandsOn /\ EscapeKey
    \/ HandsOn /\ \E time \in 0..Max(duration, 1) : HandleSeek(time)
    \/ HandsOn /\ \E r \in Rates : SetPlaybackRate(r)
    \/ HandsOn /\ \E i \in 1..MaxItems : DeleteClick(i)
    \/ HandsOn /\ ClearAllClick
    \/ HandsOn /\ GenerateClick
    \/ GenerateFails
    \/ \E d \in Durations : GenerateDone(d)
    \/ \E f \in rafFrames : Tick(f)
    \/ PlayoutClock
    \/ \E id \in pendingDeletes : DeleteDone(id)
    \/ ClearAllDone
    \/ LoadHistoryDone

\* requestAnimationFrame callbacks run at every display frame and the clock
\* of a running audio context advances
PlayoutSpec ==
    /\ Init
    /\ [][PlayoutNext]_vars
    /\ WF_vars(\E f \in rafFrames : Tick(f))
    /\ WF_vars(PlayoutClock)

\* ------------------------------------------------------------------------
\* Properties of the Visualizer (checked under VisualizerSpec)
\* ------------------------------------------------------------------------

\* a step in which the analyser is queried
SnapshotTaken == visualizer'.snapshots > visualizer.snapshots

\* C26 (as stated): a snapshot is taken only in a state in which a history
\* item is playing, and while none is playing and the Visualizer is shown
\* with an analyser its canvas carries the static idle indicator.
C26_NoSnapshotWhileIdle ==
    [][/\ SnapshotTaken => isPlaying
       /\ ( /\ ~isPlaying'
            /\ EffectRan(VisualizerProps(Engine, vizMode)') )
            => visualizer'.canvas = "idle"
      ]_vars

\* C26 (amended): the Visualizer follows the isPlaying of the render whose
\* effect ran last: a snapshot is taken only when that render had isPlaying
\* true, and once the effect of a render with isPlaying false has run the
\* canvas carries the idle indicator and no animation frame is left
\* requested, so no snapshot follows until the effect of a render with
\* isPlaying true runs.
C26_NoSnapshotAfterIdleEffect ==
    [][/\ SnapshotTaken =>
            EffectRan(visualizer'.props) /\ visualizer'.props.isPlaying
       /\ ( EffectRan(visualizer'.props) /\ ~visualizer'.props.isPlaying )
            => visualizer'.canvas = "idle" /\ ~visualizer'.frame
      ]_vars

\* snapshots were taken while an item played, the item was stopped, and the
\* effect of the render that followed has run
C26_Witness ==
    /\ visualizer.snapshots = MaxSnapshots
    /\ ~isPlaying
    /\ EffectRan(visualizer.props)
    /\ ~visualizer.props.isPlaying
    /\ visualizer.canvas = "idle"

\* ------------------------------------------------------------------------
\* Toast specification: the timer of every ToastItem, beside a generation
\* that adds a toast and plays the new item; the clock counts seconds
\* ------------------------------------------------------------------------

\* seconds the clock of this specification runs
MaxSeconds == 5

\* setTimeout(..., 3000)
ToastDelay == 3

\* the useState values of App: a change of any of them renders App again
AppState ==
    << activeId, isPlaying, currentTime, duration, playbackRate, volume,
       previewVoice, history, isGenerating, toasts >>

\* the effects of the ToastItems after a render of App at time t:
\* dismissToast is a new function in every render, so the effect of every
\* toast already shown is cleaned up (clearTimeout) and run again
\* (setTimeout); a new toast gets its first timer
toastEffects(timers, list, t) ==
    [k \in 1..Len(list) |->
        IF k <= Len(timers)
        THEN [timers[k] EXCEPT !.due = t + ToastDelay]
        ELSE [shown |-> t, due |-> t + ToastDelay]]

ToastFrame ==
    UNCHANGED << codecVars, storeLog, sessionFile, importing, pendingToggles,
                 vizMode, visualizer >>

\* React renders App after a state change and runs the ToastItem effects
RenderApp ==
    /\ toastTimers.rendered # AppState
    /\ toastTimers' = [rendered |-> AppState,
                       timers |-> toastEffects(toastTimers.timers, toasts, now)]
    /\ UNCHANGED << engineVars, appVars, generateVars >>
    /\ ToastFrame

\* the timer of toast k fires: onDismiss(toast.id)
ToastTimerFires(k) ==
    /\ toastTimers.rendered = AppState
    /\ k \in 1..Len(toastTimers.timers)
    /\ toastTimers.timers[k].due <= now
    /\ toasts' = dismissToast(toasts, k)
    /\ toastTimers' = [toastTimers EXCEPT
                          !.timers = dismissToast(toastTimers.timers, k)]
    /\ UNCHANGED << engineVars, appVars, generation >>
    /\ ToastFrame

\* a second passes: renders and display frames that are due have run, and
\* no timer is overdue
SecondPasses ==
    /\ now < MaxSeconds
    /\ toastTimers.rendered = AppState
    /\ \A k \in 1..Len(toastTimers.timers) : toastTimers.timers[k].due > now
    /\ \A f \in rafFrames :
         f.current => Elapsed(Engine, f.rate, now) = currentTime
    /\ now' = now + 1
    /\ UNCHANGED << engineVars, history, isGenerating, generateClosure, store,
                    loadPending, pendingDeletes, pendingClear, nextId,
                    generateVars, toastTimers >>
    /\ ToastFrame

\* the one user action: Generate is clicked while no toast is on display,
\* so that every toast lives without user action
GenerateWithNoToast == toasts = << >> /\ HandleGenerate

ToastNext ==
    \/ GenerateWithNoToast
    \/ \E data \in GenerateInputs : GenerateSpeechResolves(data)
    \/ DecodeResolves
    \/ DecodeRejects
    \/ SaveItemResolves
    \/ \E f \in rafFrames : Tick(f)
    \/ RenderApp
    \/ \E k \in 1..MaxToasts : ToastTimerFires(k)
    \/ SecondPasses

ToastSpec == StoreInit /\ [][ToastNext]_vars

\* ------------------------------------------------------------------------
\* Properties of the playout (checked under PlayoutSpec)
\* ------------------------------------------------------------------------

\* playback is over and the position shown is the duration of the item
EndedAtDuration == ~isPlaying /\ currentTime = duration

\* C30: whenever an item is playing and the user has stopped acting, the
\* engine eventually is not playing with the position equal to the duration
\* of the item
C30_PlaybackTerminates ==
    (isPlaying /\ ~HandsOn) ~> EndedAtDuration

\* ------------------------------------------------------------------------
\* Properties of the toasts (checked under ToastSpec)
\* ------------------------------------------------------------------------

\* C29: no toast is on display more than ToastDelay seconds after it
\* appeared (timers fire when they are due, so a toast that is still shown
\* later than that was not dismissed by its timer in time).
C29_ToastDismissedAfterDelay ==
    \A k \in 1..Len(toastTimers.timers) :
        now <= toastTimers.timers[k].shown + ToastDelay

\* ------------------------------------------------------------------------
\* Properties of the playback engine (checked under Spec)
\* ------------------------------------------------------------------------

ItemAt(i) == IF i \in 1..Len(history) THEN history[i] ELSE NoItem

\* C2: a play of item B while item A is playing leaves exactly one source
\* emitting, the history source of B, with B the active item and playing,
\* and leaves no pending frame of A's monitor (so no later position update
\* is computed for A).
C2_SwitchLeavesOnlyB ==
    [][\A i \in 1..MaxItems :
         ( /\ isPlaying
           /\ sourceNodeRef.emitting
           /\ activeId # ItemAt(i).id
           /\ PlayItem(i) )
         => ( /\ Emitting(Engine)' = 1
              /\ sourceNodeRef' = [item |-> ItemAt(i).id, emitting |-> TRUE]
              /\ activeId' = ItemAt(i).id
              /\ isPlaying'
              /\ \A f \in rafFrames' : f.item.id # activeId )]_vars

\* a history source starts emitting
HistoryStarts ==
    /\ sourceNodeRef'.emitting
    /\ ~sourceNodeRef.emitting \/ sourceNodeRef'.item # sourceNodeRef.item

Playing(e) == e.isPlaying /\ e.sourceNodeRef.emitting

\* C11: in every reachable state where an item is playing, handlePlayPause
\* stops the emission, sets isPlaying to false and keeps the active item
\* and the position; a second handlePlayPause at any later clock value,
\* nothing else in between, leaves the same item playing, its source
\* emitting, at exactly that position.
C11_PauseThenResume ==
    Playing(Engine) =>
        LET p == handlePlayPause(Engine, history, now)
        IN  /\ ~p.isPlaying
            /\ Emitting(p) = 0
            /\ p.activeId = activeId
            /\ p.currentTime = currentTime
            /\ \A t \in now..MaxClock :
                 LET r == handlePlayPause(p, history, t)
                 IN  /\ r.isPlaying
                     /\ r.sourceNodeRef =
                            [item |-> activeId, emitting |-> TRUE]
                     /\ r.activeId = activeId
                     /\ r.currentTime = currentTime

\* the times the seek slider and the skip buttons of PlayerControls can
\* hand to handleSeek: 0 <= time <= (duration || 1)
SeekTimes == 0..Max(duration, 1)

\* C12: in every reachable state with an active item, handleSeek(time)
\* while not playing changes the position to time and nothing else; while
\* playing it leaves the active item playing, its source the only one
\* emitting, started at offset time (clock reference = clock - time/rate,
\* position = time).
C12_SeekFrame ==
    activeId # NullId =>
        \A time \in SeekTimes :
            LET s == handleSeek(Engine, history, time, now)
            IN  IF isPlaying
                THEN /\ s.isPlaying
                     /\ s.sourceNodeRef =
                            [item |-> activeId, emitting |-> TRUE]
                     /\ Emitting(s) = 1
                     /\ s.activeId = activeId
                     /\ s.playbackRate = playbackRate
                     /\ s.startTimeRef =
                            2 * now - ((2 * time) \div playbackRate)
                     /\ s.currentTime = time
                ELSE s = [Engine EXCEPT !.currentTime = time]

\* the range input of PlayerControls clamps a requested value to
\* [min, max] = [0, duration || 1] before onSeek sees it
sliderValue(e, req) ==
    Min(Max(req, 0), IF e.duration = 0 THEN 1 ELSE e.duration)

\* the +5s button: onSeek(Math.min(duration, currentTime + 5))
skipForward(e) == Min(e.duration, e.currentTime + 5)

\* the times onSeek receives when the user asks for a position beyond the
\* end: the slider dragged past its end, the +5s button near the end
BeyondEndSeeks(e) ==
    { sliderValue(e, req) : req \in (e.duration + 1)..(e.duration + 2) }
    \cup (IF e.currentTime + 5 > e.duration THEN {skipForward(e)} ELSE {})

\* handleSeek(time) in state e ends with the exception of source.connect
SeekThrows(e, list) ==
    /\ e.activeId # NullId
    /\ Find(list, e.activeId) # NoItem
    /\ e.isPlaying
    /\ ConnectThrows(e)

\* C13: in every reachable state with an active item, playing or not, a
\* seek the controls deliver for a position beyond the end raises no
\* error, leaves the position at exactly the duration and leaves the engine
\* not playing, with the same active item and no history source emitting.
C13_SeekBeyondEnd ==
    activeId # NullId =>
        \A time \in BeyondEndSeeks(Engine) :
            LET s == handleSeek(Engine, history, time, now)
            IN  /\ ~SeekThrows(Engine, history)
                /\ s.currentTime = duration
                /\ ~s.isPlaying
                /\ s.activeId = activeId
                /\ ~s.sourceNodeRef.emitting

C15_RateChangeKeepsPosition ==
    [][ \A r \in Rates :
          (SetPlaybackRate(r) /\ isPlaying)
          => /\ isPlaying'
             /\ sourceNodeRef' = [item |-> activeId, emitting |-> TRUE]
             /\ activeId' = activeId
             /\ playbackRate' = r
             /\ \E f \in rafFrames' :
                  f.current /\ f.rate = r /\ f.item.id = activeId
             /\ startTimeRef' = 2 * now - ((2 * currentTime) \div r)
             /\ currentTime' = currentTime
      ]_vars

\* the playback state a user of the engine sees
PlaybackState(e) ==
    << e.activeId, e.currentTime, e.duration, e.playbackRate, e.volume,
       e.isPlaying >>

\* C16: in every reachable state stopAudio applied twice leaves the state
\* stopAudio applied once leaves, and in every reachable state where
\* nothing is emitting stopAudio leaves active item, position, duration,
\* rate, volume and isPlaying as they are (stopAudio has no path that
\* throws: stop() is inside try/catch).
C16_StopIdempotent ==
    /\ stopAudio(stopAudio(Engine)) = stopAudio(Engine)
    /\ Emitting(Engine) = 0 =>
           PlaybackState(stopAudio(Engine)) = PlaybackState(Engine)

\* nothing is emitting and an item is active, away from its start
C16_Witness ==
    /\ Emitting(Engine) = 0
    /\ activeId # NullId
    /\ currentTime > 0
    /\ sourceNodeRef = NullSource

\* no active item and nothing emitting
Idle(e) == e.activeId = NullId /\ Emitting(e) = 0

\* handlePlayPause in state e starts no emission and changes neither the
\* active item nor isPlaying nor the position
PauseIsNoOp(e, list, t) ==
    LET p == handlePlayPause(e, list, t)
    IN  /\ Emitting(p) = 0
        /\ p.activeId = e.activeId
        /\ p.isPlaying = e.isPlaying
        /\ p.currentTime = e.currentTime

C18_VolumeOnlySetsGain ==
    [][ \A v \in Volumes :
          SetVolume(v)
          => /\ volume' = v
             /\ gainValue' = (IF gainNodeRef # NoCtx THEN v ELSE gainValue)
             /\ UNCHANGED << sourceNodeRef, previewSourceRef, leaked,
                             rafFrames, endedEvents, startTimeRef,
                             currentTime, isPlaying, activeId, duration,
                             playbackRate, previewVoice, audioContextRef,
                             gainNodeRef >>
      ]_vars

\* an item is playing, the clock has moved on since its last frame, and
\* the volume and the gain value are no longer the initial ones
C18_Witness ==
    /\ isPlaying
    /\ sourceNodeRef.emitting
    /\ volume = 50
    /\ gainValue = 50
    /\ Elapsed(Engine, playbackRate, now) > currentTime

\* C19: no step replaces an audio context or a gain node that exists, and
\* after every step the gain node (with the analyser it feeds), if there is
\* one, was made by the current audio context.
C19_RouteNeverReplaced ==
    [][ /\ audioContextRef # NoCtx => audioContextRef' = audioContextRef
        /\ gainNodeRef # NoCtx => gainNodeRef' = gainNodeRef
        /\ gainNodeRef' # NoCtx => gainNodeRef' = audioContextRef'
      ]_vars

\* C28: in every state in which a history item is playing, a click on the
\* preview of any voice leaves that item playing: the same active item,
\* isPlaying true, its source still emitting.
C28_PreviewKeepsHistoryPlaying ==
    (isPlaying /\ sourceNodeRef.emitting) =>
        \A voiceName \in Voices :
            LET after == handlePreviewVoice(Engine, voiceName)
            IN  /\ after.isPlaying
                /\ after.activeId = activeId
                /\ after.sourceNodeRef = sourceNodeRef

\* C32: between event handlers isPlaying is true exactly when the history
\* source reference is non-null
C32_PlayingIffSource == isPlaying <=> sourceNodeRef # NullSource

\* C32 witness: an item was played and stopped, or reached its end
C32_Witness ==
    /\ ~isPlaying
    /\ sourceNodeRef = NullSource
    /\ activeId # NullId
    /\ currentTime > 0

\* C33: in every reachable state the active item id is null or the id of an
\* item of the in-memory history list
C33_ActiveInHistory == activeId = NullId \/ Find(history, activeId) # NoItem

\* C35: whenever the shared gain stage exists, its gain value equals the
\* current volume setting
C35_GainIsVolume == gainNodeRef # NoCtx => gainValue = volume

\* C36: in every reachable state with no removal in flight, isPlaying
\* implies that the active item is present in the in-memory history
C36_RemovedItemSilent ==
    (pendingDeletes = {} /\ ~pendingClear /\ isPlaying)
    => Find(history, activeId) # NoItem

\* C38: the preview indicator names a voice exactly while that voice's
\* preview source is the one emitting and is cleared whenever no preview
\* is emitting, whatever preview clicks, history plays and ended events
\* come, the ended event of a preview stopped by a newer preview included.
\* A tone that has reached its end counts as emitting until its ended
\* event has been delivered.
C38_IndicatorIsEmittingPreview ==
    /\ previewSourceRef.emitting => previewVoice = previewSourceRef.voice
    /\ previewVoice # NoVoice
       => /\ previewSourceRef.voice = previewVoice
          /\ previewSourceRef.emitting \/ endedEvents > 0

\* ------------------------------------------------------------------------
\* Properties of handleGenerate (checked under GenerateSpec)
\* ------------------------------------------------------------------------

\* C20: while handleGenerate waits for the decoder with a stream the
\* decoder rejects, the step that ends the wait ends the operation:
\* the store and the history list are as before, every variable of the
\* playback engine is as before (no source was started), isGenerating is
\* false, and exactly one toast was added, of type error, carrying the
\* decoder's error.
C20_DecodeFailureAborts ==
    [][ LET b == decodeAudioData(generation.base64Data, SAMPLE_RATE, 1)
        IN  ( /\ generation.at = "decodeAudioData"
              /\ b.status = "error"
              /\ generation' # generation )
            => /\ generation' = NoGeneration
               /\ store' = store
               /\ history' = history
               /\ UNCHANGED engineVars
               /\ ~isGenerating'
               /\ toasts' = Append(toasts, [type |-> "error",
                                            message |-> b.error])
      ]_vars

\* a generation has failed in the decoder (odd byte count) while an item
\* of the list was playing, and the item is still playing
C20_Witness ==
    /\ generation = NoGeneration
    /\ ~isGenerating
    /\ Len(toasts) > 0
    /\ toasts[Len(toasts)] = [type |-> "error", message |-> "RangeError"]
    /\ isPlaying
    /\ sourceNodeRef.emitting

\* ------------------------------------------------------------------------
\* Properties of the encoders (checked under EncodeSpec)
\* ------------------------------------------------------------------------

Touches(request, id) ==
    \/ request.op = "put" /\ request.item.id = id
    \/ request.op = "delete" /\ request.id = id
    \/ request.op = "clear"

\* the map of the claim after the first n requests of the log: for every id
\* whose latest write is a put, the item of that put
LatestPuts(n) ==
    { k \in 1..n :
        /\ storeLog[k].op = "put"
        /\ \A j \in (k + 1)..n : ~Touches(storeLog[j], storeLog[k].item.id) }

\* a record is the non-buffer projection of an item
IsProjection(record, item) ==
    /\ DOMAIN record = DOMAIN item \ {"audioBuffer"}
    /\ \A f \in DOMAIN record : record[f] = item[f]

\* a set of records is the map after the first n requests
IsMapAfter(records, n) ==
    /\ \A r \in records :
         \E k \in LatestPuts(n) : IsProjection(r, storeLog[k].item)
    /\ \A k \in LatestPuts(n) :
         \E r \in records : IsProjection(r, storeLog[k].item)
    /\ \A r, q \in records : r.id = q.id => r = q

\* C22: after any sequence of saveItem, deleteItem and clearDB the store is
\* the map from id to the non-buffer projection of the latest item put under
\* that id, deleted and cleared ids being absent, and every getAllItems
\* returned exactly the records of that map, each once.
C22_StoreIsMapOfLatestPuts ==
    /\ IsMapAfter(store, Len(storeLog))
    /\ \A n \in 1..Len(storeLog) :
         storeLog[n].op = "getAll" =>
             LET result == storeLog[n].result
             IN  /\ IsMapAfter({ result[i] : i \in 1..Len(result) }, n - 1)
                 /\ \A i, j \in 1..Len(result) :
                      result[i] = result[j] => i = j

\* an id was put twice with different items, another id was put and then
\* deleted or cleared, and a getAllItems followed
C22_Witness ==
    /\ Len(storeLog) = MaxRequests
    /\ storeLog[1].op = "put" /\ storeLog[2].op = "put"
    /\ storeLog[1].item.id = storeLog[2].item.id
    /\ storeLog[1].item # storeLog[2].item
    /\ storeLog[1].item.audioBuffer # NoBuffer
    /\ storeLog[3].op = "getAll"
    /\ Len(storeLog[3].result) = 1

\* ------------------------------------------------------------------------
\* Properties of session export, import and favourites (checked under
\* SessionSpec)
\* ------------------------------------------------------------------------

\* the fields the claim names: text, voice label, style label, timestamp
\* and duration
SameLabels(a, b) ==
    /\ a.text = b.text
    /\ a.voice = b.voice
    /\ a.style = b.style
    /\ a.timestamp = b.timestamp
    /\ a.duration = b.duration

\* entries of the history array of a session text
EntriesOf(text) == JSONparse(text).value.history

Malformed(text) ==
    \/ JSONparse(text).status = "error"
    \/ "history" \notin DOMAIN JSONparse(text).value
    \/ \E i \in 1..Len(EntriesOf(text)) :
         decodeAudioData(EntriesOf(text)[i].base64, SAMPLE_RATE, 1).status
             # "ok"

\* C24: when a malformed session text is read, an error toast is added and
\* neither that step nor any later step of the same import changes the
\* history list or the store.
C24_MalformedImportRejected ==
    [][/\ ( /\ importing.at = "none"
            /\ importing' # importing
            /\ Malformed(importing'.result) ) =>
            /\ Len(toasts') = Len(toasts) + 1
            /\ toasts'[Len(toasts')].type = "error"
            /\ history' = history
            /\ store' = store
       /\ ( /\ importing.at = "saving"
            /\ importing' # importing
            /\ Malformed(importing.result) ) =>
            /\ history' = history
            /\ store' = store
      ]_vars

\* the version handleExportSession writes is the one an importer supports
SupportedVersion(text) ==
    /\ JSONparse(text).status = "ok"
    /\ "version" \in DOMAIN JSONparse(text).value
    /\ JSONparse(text).value.version = 1

\* C25: no entry of a document is decoded, saved or listed unless the
\* document's version field is present and supported: an import is in
\* flight only for such a document.
C25_VersionChecked ==
    importing.at = "saving" => SupportedVersion(importing.result)

\* the item or record with its favourite flag flipped
Flipped(item) == [item EXCEPT !.isFavorite = ~@]

\* C27: when a favourite toggle of item id completes, the list has the same
\* length, the items with that id have their flag flipped and nothing else
\* changed, every other item is as before; the store holds records for the
\* same ids, the record of id is the old one with its flag flipped and
\* every other record is as before.
C27_ToggleFlipsOnlyFavorite ==
    [][(pendingToggles # << >> /\ pendingToggles' = Tail(pendingToggles)) =>
         LET id == Head(pendingToggles).id
         IN  /\ Len(history') = Len(history)
             /\ \A i \in 1..Len(history) :
                  history'[i] = IF history[i].id = id
                                THEN Flipped(history[i])
                                ELSE history[i]
             /\ { r.id : r \in store' } = { r.id : r \in store }
             /\ \A r \in store :
                  IF r.id = id
                  THEN Flipped(r) \in store'
                  ELSE r \in store'
      ]_vars

\* C34: the ids of the items of the in-memory history list are pairwise
\* distinct in every reachable state
C34_IdsDistinct ==
    \A i, j \in 1..Len(history) : history[i].id = history[j].id => i = j

\* ------------------------------------------------------------------------
\* Properties of the store and the list together (checked under SyncSpec)
\* ------------------------------------------------------------------------

\* no handler is suspended at an await
NothingInFlight ==
    /\ ~loadPending
    /\ ~isGenerating
    /\ importing.at = "none"
    /\ pendingToggles = << >>
    /\ pendingDeletes = {}
    /\ ~pendingClear

\* C37: whenever no operation is in flight, the set of item ids in the
\* persistent store equals the set of item ids in the in-memory history
C37_StoreMatchesList ==
    NothingInFlight
    => { r.id : r \in store } = { history[i].id : i \in 1..Len(history) }

\* ------------------------------------------------------------------------
\* Properties of the codec (checked under CodecSpec)
\* ------------------------------------------------------------------------

\* the raw PCM bytes the decoder sees, when atob accepts the text
RawBytes == binaryToBytes(atobBinary(base64Data).binary)

\* the decoder has just been applied to base64Data (a synthesized buffer
\* comes with the empty text, which the decoder rejects)
DecoderRan ==
    \/ cpc = "wav" /\ base64Data # << >>
    \/ cpc = "server" /\ buffer.status = "error"

\* ... and the text was well-formed base64
DecodedFromRaw == DecoderRan /\ atobBinary(base64Data).ok

\* unsigned little-endian fields of a byte sequence, 0-based offset
U16At(bytes, off) == bytes[off + 1] + 256 * bytes[off + 2]

U32At(bytes, off) ==
    bytes[off + 1] + 256 * bytes[off + 2] + 65536 * bytes[off + 3]
    + 16777216 * bytes[off + 4]

\* the canonical 44 byte header for c channels, rate sr and dataSize bytes
CanonicalHeader(h, c, sr, dataSize) ==
    /\ Len(h) = 44
    /\ SubSeq(h, 1, 4) = AsciiRIFF
    /\ U32At(h, 4) = 36 + dataSize
    /\ SubSeq(h, 9, 12) = AsciiWAVE
    /\ SubSeq(h, 13, 16) = AsciiFmt
    /\ U32At(h, 16) = 16
    /\ U16At(h, 20) = 1
    /\ U16At(h, 22) = c
    /\ U32At(h, 24) = sr
    /\ U32At(h, 28) = sr * c * 2
    /\ U16At(h, 32) = c * 2
    /\ U16At(h, 34) = 16
    /\ SubSeq(h, 37, 40) = AsciiData
    /\ U32At(h, 40) = dataSize

\* C4 (as stated): decoding a RawAudioSample of even byte length, encoding
\* the buffer as WAV and decoding the WAV payload again gives the same
\* samples at the same indices.
C4_WavRoundTripLossless ==
    (cpc = "mp3" /\ base64Data # << >>)
    => /\ reDecoded.status = "ok"
       /\ reDecoded.channelData = buffer.channelData

\* C5: the WAV output has 44 + 2*N*c bytes, starts with the canonical header
\* for (c, sr, dataSize = 2*N*c), and the server's createWavHeader gives the
\* canonical header of its own parameters, hence the same bytes for the same
\* parameters.
C5_WavHeaderLayout ==
    /\ wavBlob.status = "ok" =>
         /\ Len(wavBlob.bytes)
              = 44 + 2 * buffer.length * buffer.numberOfChannels
         /\ CanonicalHeader(SubSeq(wavBlob.bytes, 1, 44),
                            buffer.numberOfChannels, buffer.sampleRate,
                            2 * buffer.length * buffer.numberOfChannels)
    /\ wavHeader.status = "ok" =>
         CanonicalHeader(wavHeader.bytes, wavHeader.numChannels,
                         wavHeader.sampleRate, wavHeader.pcmLength)
    /\ (wavBlob.status = "ok" /\ wavHeader.status = "ok"
          /\ wavHeader.numChannels = buffer.numberOfChannels
          /\ wavHeader.sampleRate = buffer.sampleRate
          /\ wavHeader.pcmLength = 2 * buffer.length * buffer.numberOfChannels)
       => wavHeader.bytes = SubSeq(wavBlob.bytes, 1, 44)

\* C5 witness: client and server headers both written for the same
\* parameters of a two-channel buffer
C5_Witness ==
    /\ wavBlob.status = "ok"
    /\ wavHeader.status = "ok"
    /\ buffer.numberOfChannels = 2
    /\ wavHeader.numChannels = 2
    /\ wavHeader.sampleRate = buffer.sampleRate
    /\ wavHeader.pcmLength = 2 * buffer.length * buffer.numberOfChannels

\* the conversion rule as the specification words it: clamp, then the sign
\* alone selects the factor
SignScaled(x) ==
    LET sample == ClampSample(x)
    IN  IF sample < 0 THEN sample ELSE TruncDiv(sample * 32767, 32768)

\* C6 (as stated): every 16 bit word the WAV encoder stores is the clamped
\* sample it was converted from, scaled by 32767 when the sample is positive
\* or zero and by 32768 when it is negative.
C6_SignSelectsFactor ==
    cpc = "redecode" =>
      \A p \in (WavHeaderLen + 1)..buffer.length :
        \A ch \in 1..buffer.numberOfChannels :
          LET k == (p - WavHeaderLen - 1) * buffer.numberOfChannels + (ch - 1)
          IN  Int16LE(wavBlob.bytes[WavHeaderLen + 2 * k + 1],
                      wavBlob.bytes[WavHeaderLen + 2 * k + 2])
                = SignScaled(buffer.channelData[ch][p])

\* what C7 promises of a mono decode of L bytes
MonoDecodeOf(bytes) ==
    /\ buffer.status = "ok"
    /\ buffer.length = Len(bytes) \div 2
    /\ buffer.numberOfChannels = 1
    /\ \A i \in 1..(Len(bytes) \div 2) :
         /\ buffer.channelData[1][i]
              = (IF bytes[2 * i] >= 128 THEN bytes[2 * i] - 256
                 ELSE bytes[2 * i]) * 256 + bytes[2 * i - 1]
         /\ buffer.channelData[1][i] >= -32768
         /\ buffer.channelData[1][i] <= 32768
    /\ BufferDuration(buffer).num * sampleRate
         = (Len(bytes) \div 2) * BufferDuration(buffer).den
    /\ (Len(bytes) = 2 * 24000 /\ sampleRate = 24000)
         => BufferDuration(buffer).num = BufferDuration(buffer).den

\* C7 (as stated): for every even decoded byte length L, mono, the decoder
\* returns L/2 samples, sample i the little-endian int16 at bytes 2i, 2i+1
\* over 32768, and duration (L/2)/sampleRate.
C7_DecodeEvenLength ==
    (DecodedFromRaw /\ numChannels = 1 /\ Len(RawBytes) % 2 = 0)
    => MonoDecodeOf(RawBytes)

\* C7 (amended): the same for every even and non-zero byte length; an empty
\* sample stream makes createBuffer throw.
C7_DecodeEvenNonEmpty ==
    (DecodedFromRaw /\ numChannels = 1 /\ Len(RawBytes) % 2 = 0
       /\ Len(RawBytes) > 0)
    => MonoDecodeOf(RawBytes)

\* C7 witness: one second of audio, 24000 samples at 24000 Hz, decoded
C7_Witness ==
    /\ DecodedFromRaw
    /\ numChannels = 1
    /\ sampleRate = 24000
    /\ Len(RawBytes) = 48000
    /\ buffer.status = "ok"

\* C7 witness of a negative sample: bytes 00 80 decode to -1.0
C7_WitnessNegative ==
    /\ DecodedFromRaw
    /\ numChannels = 1
    /\ buffer.status = "ok"
    /\ \E i \in 1..buffer.length : buffer.channelData[1][i] = -32768

\* C8 (as stated): a byte length that is not a multiple of 2*channels is
\* truncated to floor(byteCount / (2*channels)) frames, not an error.
C8_PartialFrameDropped ==
    (DecodedFromRaw /\ Len(RawBytes) % (2 * numChannels) # 0)
    => /\ buffer.status = "ok"
       /\ buffer.length = Len(RawBytes) \div (2 * numChannels)

\* C9 (as stated): the MP3 export hands every sample to encodeBuffer exactly
\* once and in order (full blocks of 1152, then the remainder), then
\* flushes; the output is the concatenation of the outputs in call order.
C9_EverySampleEncoded ==
    mp3Client.status = "ok" =>
      LET calls == mp3Client.calls
          n == Len(calls)
      IN  /\ n >= 1
          /\ calls[n].op = "flush"
          /\ \A k \in 1..(n - 1) : calls[k].op = "encodeBuffer"
          /\ ConcatAll([k \in 1..(n - 1) |-> calls[k].samples])
               = mp3Client.samplesInt16
          /\ \A k \in 1..(n - 2) : Len(calls[k].samples) = 1152
          /\ mp3Client.blob
               = ConcatAll([k \in 1..n |->
                    EncoderOutput(k, calls[k], mp3Client.encoder.latency,
                                  mp3Client.encoder.flushEmpty)])

\* C10: for the same int16 samples the client export and the server
\* conversion make the same encoder calls and concatenate the same outputs.
C10_SameBlockDiscipline ==
    (mp3Client.status = "ok" /\ mp3Server.status = "ok"
       /\ mp3Client.samplesInt16 = mp3Server.samples)
    => /\ mp3Client.calls = mp3Server.calls
       /\ mp3Client.blob = mp3Server.result

\* C10 witness: both ran on the same samples, at least one full block and a
\* remainder that is not a whole block
C10_Witness ==
    /\ mp3Client.status = "ok"
    /\ mp3Server.status = "ok"
    /\ mp3Client.samplesInt16 = mp3Server.samples
    /\ Len(mp3Server.samples) > sampleBlockSize
    /\ Len(mp3Server.samples) % sampleBlockSize # 0
    /\ Len(mp3Server.calls) >= 2

\* C31: in the WAV output for a mono buffer of N samples, for every k in
\* 0..N-1 the 16-bit word at byte offset 44 + 2k is the quantization of the
\* buffer's k-th sample
C31_PayloadInInputOrder ==
    (wavBlob.status = "ok" /\ buffer.numberOfChannels = 1)
    => \A k \in 0..(buffer.length - 1) :
         SubSeq(wavBlob.bytes, 44 + 2 * k + 1, 44 + 2 * k + 2)
           = LE16(WavQuantize(buffer.channelData[1][k + 1]))

====
